---------------------------- MODULE Spec2Model ----------------------------
(***************************************************************************)
(* A model of the medical-intake pipeline: the four stages of              *)
(* src/app/agents.py (Intake, Router, Specialist, Summary) with their      *)
(* normalisation of model output, and the streaming controller of          *)
(* src/main.py (consult_stream) with its session store.                    *)
(*                                                                         *)
(* A text is a sequence of characters.  A Chinese character of a keyword,  *)
(* a marker or a department name is written as its pinyin syllable         *)
(* ("xiong", "tong" for the two characters of the keyword meaning chest    *)
(* pain; a digit tells homophones apart), an ASCII character as itself,    *)
(* and a fixed message of the program as the words of its English gloss.   *)
(* A JSON value coming from the model, or held in a state dict, is a       *)
(* tagged record (Null, Str, Num, Bool, List, Obj).                        *)
(***************************************************************************)
EXTENDS Integers, Sequences, FiniteSets, TLC

VARIABLES
    patient,    \* SpecAgents: the patient_info dict kept between stage calls
    call,       \* SpecAgents: the stage call in progress (input and update), or Idle
    db,         \* SESSION_DB: session id -> bucket, for the ids that exist
    turn        \* the consult_stream requests: slot -> the generator's frame

vars == <<patient, call, db, turn>>

-----------------------------------------------------------------------------
(* JSON / Python values *)

Null == [k |-> "null"]
Str(t) == [k |-> "str", v |-> t]
Num(n) == [k |-> "num", v |-> n]
Bool(b) == [k |-> "bool", v |-> b]
List(s) == [k |-> "list", v |-> s]
Obj(f) == [k |-> "obj", v |-> f]

\* the empty dict {}
EmptyDict == [x \in {} |-> Null]

\* dict.get(key), None when the key is absent
Get(d, key) == IF key \in DOMAIN d THEN d[key] ELSE Null

\* dict.get(key, default)
GetOr(d, key, default) == IF key \in DOMAIN d THEN d[key] ELSE default

\* d1.update(d2) on a copy of d1
Update(d1, d2) ==
    [key \in DOMAIN d1 \cup DOMAIN d2 |-> IF key \in DOMAIN d2 THEN d2[key] ELSE d1[key]]

IsWhite(c) == c \in {" ", "\n"}

RECURSIVE LStrip(_)
LStrip(t) == IF t # <<>> /\ IsWhite(Head(t)) THEN LStrip(Tail(t)) ELSE t

RECURSIVE RStrip(_)
RStrip(t) ==
    IF t # <<>> /\ IsWhite(t[Len(t)]) THEN RStrip(SubSeq(t, 1, Len(t) - 1)) ELSE t

\* str.strip()
Strip(t) == RStrip(LStrip(t))

\* needle in text (substring search)
Contains(text, needle) ==
    \E i \in 1..(Len(text) - Len(needle) + 1) :
        SubSeq(text, i, i + Len(needle) - 1) = needle

InSeq(x, s) == \E i \in 1..Len(s) : s[i] = x

RECURSIVE Join(_, _)
Join(parts, sep) ==
    IF parts = <<>> THEN <<>>
    ELSE IF Len(parts) = 1 THEN parts[1]
    ELSE parts[1] \o sep \o Join(Tail(parts), sep)

Digits == <<"0", "1", "2", "3", "4", "5", "6", "7", "8", "9">>

DigitOf(c) == (CHOOSE i \in 1..10 : Digits[i] = c) - 1

RECURSIVE NatText(_)
NatText(n) == IF n < 10 THEN <<Digits[n + 1]>> ELSE NatText(n \div 10) \o <<Digits[(n % 10) + 1]>>

\* str(n) of an int
IntText(n) == IF n < 0 THEN <<"-">> \o NatText(-n) ELSE NatText(n)

RECURSIVE ListText(_)
ListText(s) ==
    IF s = <<>> THEN <<>>
    ELSE (IF s[1].k = "str" THEN <<"'">> \o s[1].v \o <<"'">>
          ELSE IF s[1].k = "num" THEN IntText(s[1].v)
          ELSE <<"?">>)
         \o (IF Len(s) > 1 THEN <<",", " ">> ELSE <<>>) \o ListText(Tail(s))

\* str(value)
PyStr(value) ==
    CASE value.k = "str" -> value.v
      [] value.k = "num" -> IntText(value.v)
      [] value.k = "bool" -> IF value.v THEN <<"T", "r", "u", "e">> ELSE <<"F", "a", "l", "s", "e">>
      [] value.k = "list" -> <<"[">> \o ListText(value.v) \o <<"]">>
      [] value.k = "obj" -> <<"{", "}">>
      [] OTHER -> <<"N", "o", "n", "e">>

\* text.lower(): only ASCII letters the model uses have a lower case
Lower(t) ==
    [i \in 1..Len(t) |->
        CASE t[i] = "Y" -> "y" [] t[i] = "T" -> "t" [] t[i] = "N" -> "n" [] OTHER -> t[i]]

-----------------------------------------------------------------------------
(* src/app/agents.py: the field normalisers *)

safe_text(value, default) ==
    IF value = Null THEN default
    ELSE LET text == Strip(PyStr(value)) IN IF text # <<>> THEN text ELSE default

RECURSIVE to_str_list_loop(_, _, _, _)
to_str_list_loop(items, i, result, max_items) ==
    IF i > Len(items) THEN result
    ELSE LET text == safe_text(items[i], <<>>)
             r2 == IF text # <<>> /\ ~InSeq(text, result) THEN Append(result, text) ELSE result
         IN  IF Len(r2) >= max_items THEN r2
             ELSE to_str_list_loop(items, i + 1, r2, max_items)

\* the list of texts _to_str_list returns
to_str_list(value, max_items) ==
    IF value.k # "list" THEN <<>> ELSE to_str_list_loop(value.v, 1, <<>>, max_items)

\* a list of texts as a stored value
TextList(texts) == List([i \in 1..Len(texts) |-> Str(texts[i])])

DEFAULT_MAX_ITEMS == 20

as_bool(value, default) ==
    IF value.k = "bool" THEN value.v
    ELSE IF value.k = "str"
         THEN LET lowered == Lower(Strip(value.v))
              IN  IF lowered \in {<<"t", "r", "u", "e">>, <<"1">>, <<"y", "e", "s">>, <<"y">>}
                  THEN TRUE
                  ELSE IF lowered \in {<<"f", "a", "l", "s", "e">>, <<"0">>, <<"n", "o">>, <<"n">>}
                       THEN FALSE
                       ELSE default
         ELSE default

has_value(value) ==
    IF value = Null THEN FALSE
    ELSE IF value.k = "str" THEN Strip(value.v) # <<>>
    ELSE IF value.k = "list" THEN \E i \in 1..Len(value.v) : safe_text(value.v[i], <<>>) # <<>>
    ELSE TRUE

NO_DOCUMENTS == <<"wu", "shang", "chuan", "can", "kao", "cai", "liao">>

DOC_MAX_CHARS == 3000

RECURSIVE document_blocks(_, _)
document_blocks(documents_text, idx) ==
    IF idx > Len(documents_text) THEN <<>>
    ELSE LET text == safe_text(documents_text[idx], <<>>)
         IN  (IF text # <<>>
              THEN << <<"can", "kao", "cai", "liao">> \o IntText(idx) \o <<":", "\n">> \o text >>
              ELSE <<>>)
             \o document_blocks(documents_text, idx + 1)

\* documents_text is a stored value: a List of values, or anything else
build_document_context(documents_text) ==
    IF documents_text.k # "list" THEN NO_DOCUMENTS
    ELSE LET blocks == document_blocks(documents_text.v, 1)
         IN  IF blocks = <<>> THEN NO_DOCUMENTS
             ELSE LET merged == Join(blocks, <<"\n", "\n">>)
                  IN  SubSeq(merged, 1, IF Len(merged) < DOC_MAX_CHARS THEN Len(merged) ELSE DOC_MAX_CHARS)

RED_FLAGS ==
    { <<"xiong", "tong">>, <<"hu", "xi", "kun", "nan">>, <<"yi4", "shi", "bu", "qing">>,
      <<"hun", "mi">>, <<"chou", "chu">>, <<"ka", "xue">>, <<"gao", "re", "bu", "tui">> }

has_red_flag(patient_info) ==
    LET text_parts == << safe_text(Get(patient_info, "chief_complaint"), <<>>),
                         safe_text(Get(patient_info, "additional_notes"), <<>>),
                         Join(to_str_list(Get(patient_info, "symptoms"), DEFAULT_MAX_ITEMS), <<" ">>) >>
        merged_text == Lower(Join(text_parts, <<" ">>))
    IN  \E flag \in RED_FLAGS : Contains(merged_text, flag)

-----------------------------------------------------------------------------
(* src/app/agents.py: IntakeAgent *)

\* A field name, or any other single word, as a text: one character stands
\* for the whole word.
Word(w) == <<w>>

REQUIRED_FIELDS == <<"chief_complaint", "duration", "severity">>

LIST_FIELDS == <<"symptoms", "allergies", "chronic_diseases", "current_meds">>

TEXT_FIELDS == <<"sex", "chief_complaint", "duration", "severity", "additional_notes">>

KNOWN_FIELDS ==
    {"age", "sex", "chief_complaint", "duration", "severity", "symptoms", "allergies",
     "chronic_diseases", "current_meds", "additional_notes"}

PatientDefaults ==
    [age |-> Null, sex |-> Str(<<>>), chief_complaint |-> Str(<<>>), duration |-> Str(<<>>),
     severity |-> Str(<<>>), symptoms |-> List(<<>>), allergies |-> List(<<>>),
     chronic_diseases |-> List(<<>>), current_meds |-> List(<<>>),
     additional_notes |-> Str(<<>>)]

\* the texts float() accepts, as far as the model goes: an optional sign and digits
IsNumericText(t) ==
    LET body == IF t # <<>> /\ t[1] = "-" THEN Tail(t) ELSE t
    IN  body # <<>> /\ \A i \in 1..Len(body) : InSeq(body[i], Digits)

RECURSIVE ParseNat(_)
ParseNat(t) == IF t = <<>> THEN 0 ELSE 10 * ParseNat(SubSeq(t, 1, Len(t) - 1)) + DigitOf(t[Len(t)])

\* int(float(text)) of a numeric text
ParseInt(t) == IF t[1] = "-" THEN 0 - ParseNat(Tail(t)) ELSE ParseNat(t)

\* the age_value computed from source["age"]; Null stands for None
age_value_of(age_raw) ==
    IF age_raw.k = "bool" THEN Num(IF age_raw.v THEN 1 ELSE 0)
    ELSE IF age_raw.k = "num" /\ age_raw.v >= 0 THEN Num(age_raw.v)
    ELSE LET age_text == safe_text(age_raw, <<>>)
         IN  IF age_text = <<>> THEN Null
             ELSE IF IsNumericText(age_text) THEN Num(ParseInt(age_text))
             ELSE Str(age_text)

\* one field of the dict _normalize_patient_info returns: `merged` is the
\* defaults updated with the existing record, `source` the model's dict
normalized_field(f, source, merged) ==
    IF f = "age"
    THEN IF "age" \in DOMAIN source /\ age_value_of(source["age"]) # Null
         THEN age_value_of(source["age"])
         ELSE merged[f]
    ELSE IF InSeq(f, TEXT_FIELDS)
    THEN Str(safe_text(IF f \in DOMAIN source THEN Str(safe_text(source[f], <<>>)) ELSE merged[f],
                       <<>>))
    ELSE IF InSeq(f, LIST_FIELDS)
    THEN TextList(to_str_list(IF f \in DOMAIN source THEN source[f] ELSE merged[f],
                              DEFAULT_MAX_ITEMS))
    ELSE merged[f]

normalized_fields(source, merged) == [f \in DOMAIN merged |-> normalized_field(f, source, merged)]

normalize_patient_info(raw_patient_info, existing_info) ==
    normalized_fields(IF raw_patient_info.k = "obj" THEN raw_patient_info.v ELSE EmptyDict,
                      Update(PatientDefaults, existing_info))

RECURSIVE append_required(_, _, _)
append_required(fields, i, patient_info) ==
    IF i > Len(REQUIRED_FIELDS) THEN fields
    ELSE LET required == REQUIRED_FIELDS[i]
         IN  append_required(
                 IF ~has_value(Get(patient_info, required)) /\ ~InSeq(Word(required), fields)
                 THEN Append(fields, Word(required)) ELSE fields,
                 i + 1, patient_info)

\* [x for x in s if x in KNOWN_FIELDS]
RECURSIVE FilterKnown(_)
FilterKnown(s) ==
    IF s = <<>> THEN <<>>
    ELSE (IF Len(s[1]) = 1 /\ s[1][1] \in KNOWN_FIELDS THEN <<s[1]>> ELSE <<>>)
         \o FilterKnown(Tail(s))

MISSING_FIELDS_MAX == 20

\* a plausible slip: the model's list is taken without the required fields
\* that are still empty
normalize_missing_fields_as_reported(value, patient_info) ==
    FilterKnown(to_str_list(value, MISSING_FIELDS_MAX))

normalize_missing_fields(value, patient_info) ==
    append_required(FilterKnown(to_str_list(value, MISSING_FIELDS_MAX)), 1, patient_info)

is_required_complete(patient_info) ==
    \A i \in 1..Len(REQUIRED_FIELDS) : has_value(Get(patient_info, REQUIRED_FIELDS[i]))

\* question_map of _default_questions: one question per known field; the
\* question of field f is the text <<"ask", f>>
question_map(field) ==
    IF Len(field) = 1 /\ field[1] \in KNOWN_FIELDS THEN <<"ask", field[1]>> ELSE <<>>

RECURSIVE default_questions_loop(_, _, _)
default_questions_loop(missing_fields, i, questions) ==
    IF i > Len(missing_fields) THEN questions
    ELSE LET question == question_map(missing_fields[i])
         IN  default_questions_loop(missing_fields, i + 1,
                 IF question # <<>> /\ ~InSeq(question, questions)
                 THEN Append(questions, question) ELSE questions)

DEFAULT_QUESTIONS_MAX == 8

\* s[:n]
Prefix(s, n) == SubSeq(s, 1, IF Len(s) < n THEN Len(s) ELSE n)

default_questions(missing_fields) ==
    Prefix(default_questions_loop(missing_fields, 1, <<>>), DEFAULT_QUESTIONS_MAX)

QUESTIONS_MAX == 8

INTAKE_ACK == <<"received", ",", "record", "complete", ",", "entering", "triage", ".">>

INTAKE_ASK_HEADER == <<"please", "add", "the", "following", ":", "\n">>

INTAKE_GENERIC_QUESTION == <<"please", "add", "complaint", "duration", "severity", ".">>

\* the numbered lines "1. question" joined by newlines
numbered_lines(questions) ==
    Join([i \in 1..Len(questions) |-> IntText(i) \o <<".", " ">> \o questions[i]], <<"\n">>)

AssistantTurn(content) == [role |-> "assistant", content |-> content]

\* a plausible slip: the model's claim of completeness is trusted alone
intake_is_complete_trusting(required_complete, model_complete, missing_fields) ==
    model_complete \/ missing_fields = <<>>

\* a plausible slip: the model's affirmation is not looked at
intake_is_complete_unaffirmed(required_complete, model_complete, missing_fields) ==
    required_complete /\ missing_fields = <<>>

\* is_complete of IntakeAgent.run
intake_is_complete(required_complete, model_complete, missing_fields) ==
    required_complete /\ (model_complete \/ missing_fields = <<>>)

\* the update IntakeAgent.run returns
intake_update(history, patient_info, is_complete, missing_fields, missing_questions, assistant_reply) ==
    [history |-> Append(history, AssistantTurn(assistant_reply)),
     patient_info |-> patient_info,
     intake_result |->
         [is_complete |-> is_complete,
          missing_fields |-> missing_fields,
          missing_questions |-> missing_questions],
     assistant_reply |-> assistant_reply,
     next_action |-> IF is_complete THEN "continue" ELSE "ask_user_more"]

\* a plausible slip: no question is derived when the model gave none
questions_to_ask_as_given(missing_fields, missing_questions) == missing_questions

\* the questions to ask: the model's, else the table's, else the generic one
questions_to_ask(missing_fields, missing_questions) ==
    IF missing_questions # <<>> THEN missing_questions
    ELSE IF default_questions(missing_fields) # <<>> THEN default_questions(missing_fields)
    ELSE <<INTAKE_GENERIC_QUESTION>>

\* the else branch of IntakeAgent.run, once the questions are settled
intake_ask(history, patient_info, missing_fields, questions) ==
    intake_update(history, patient_info, FALSE, missing_fields, questions,
                  INTAKE_ASK_HEADER \o numbered_lines(questions))

\* the else branch of IntakeAgent.run, once missing_fields is settled
intake_incomplete(history, patient_info, missing_fields, missing_questions) ==
    intake_ask(history, patient_info, missing_fields,
               questions_to_ask(missing_fields, missing_questions))

\* a plausible slip: a complete Intake keeps the fields and the questions
\* of the model
intake_decide_keeping(history, patient_info, missing_fields, missing_questions, is_complete) ==
    IF is_complete
    THEN intake_update(history, patient_info, TRUE, missing_fields, missing_questions, INTAKE_ACK)
    ELSE intake_incomplete(history, patient_info,
                           IF missing_fields = <<>>
                           THEN normalize_missing_fields(List(<<>>), patient_info)
                           ELSE missing_fields,
                           missing_questions)

\* IntakeAgent.run from the normalised values on
intake_decide(history, patient_info, missing_fields, missing_questions, is_complete) ==
    IF is_complete
    THEN intake_update(history, patient_info, TRUE, <<>>, <<>>, INTAKE_ACK)
    ELSE intake_incomplete(history, patient_info,
                           IF missing_fields = <<>>
                           THEN normalize_missing_fields(List(<<>>), patient_info)
                           ELSE missing_fields,
                           missing_questions)

intake_normalized(history, patient_info, missing_fields, raw_result) ==
    intake_decide(history, patient_info, missing_fields,
                  to_str_list(Get(raw_result, "missing_questions"), QUESTIONS_MAX),
                  intake_is_complete(is_required_complete(patient_info),
                                     as_bool(Get(raw_result, "is_complete"), FALSE),
                                     missing_fields))

intake_with_patient(history, patient_info, raw_result) ==
    intake_normalized(history, patient_info,
                      normalize_missing_fields(Get(raw_result, "missing_fields"), patient_info),
                      raw_result)

\* IntakeAgent.run(state) when chat_json returned raw_result
IntakeRun(state, raw_result) ==
    intake_with_patient(GetOr(state, "history", <<>>),
                        normalize_patient_info(Get(raw_result, "patient_info"),
                                               GetOr(state, "patient_info", EmptyDict)),
                        raw_result)

-----------------------------------------------------------------------------
(* src/app/utils.py *)

\* as_str_list of utils.py: str(item).strip(), deduplicated, no length limit
RECURSIVE as_str_list_loop(_, _, _)
as_str_list_loop(items, i, result) ==
    IF i > Len(items) THEN result
    ELSE LET text == Strip(PyStr(items[i]))
         IN  as_str_list_loop(items, i + 1,
                 IF text # <<>> /\ ~InSeq(text, result) THEN Append(result, text) ELSE result)

as_str_list(value) == IF value.k # "list" THEN <<>> ELSE as_str_list_loop(value.v, 1, <<>>)

DEPT_RESPIRATORY == <<"hu", "xi", "ke1">>
DEPT_CARDIOLOGY == <<"xin", "xue", "guan", "ke1">>
DEPT_GASTRO == <<"xiao", "hua", "nei", "ke1">>
DEPT_GENERAL == <<"quan", "ke1">>

RESPIRATORY_KEYWORDS ==
    { <<"ke2">>, <<"chuan3">>, <<"hu", "xi">>, <<"tan">>, <<"qi", "duan">>, <<"xiong", "men">> }

CARDIOLOGY_KEYWORDS ==
    { <<"xiong", "tong">>, <<"xin", "ji">>, <<"xin", "huang">>, <<"xin", "lv">>,
      <<"xue", "ya">>, <<"xin", "kou">> }

GASTRO_KEYWORDS ==
    { <<"fu", "tong">>, <<"fu", "xie">>, <<"fan", "suan">>, <<"wei", "tong">>,
      <<"e", "xin">>, <<"ou", "tu">> }

\* a plausible slip: the gastroenterology keywords are tried before the
\* cardiology ones
route_fallback_gastro_first(patient_info) ==
    LET text_parts == << PyStr(GetOr(patient_info, "chief_complaint", Str(<<>>))),
                         PyStr(GetOr(patient_info, "additional_notes", Str(<<>>))),
                         Join(as_str_list(GetOr(patient_info, "symptoms", List(<<>>))), <<" ">>) >>
        text == Lower(Join(text_parts, <<" ">>))
    IN  IF \E k \in RESPIRATORY_KEYWORDS : Contains(text, k) THEN DEPT_RESPIRATORY
        ELSE IF \E k \in GASTRO_KEYWORDS : Contains(text, k) THEN DEPT_GASTRO
        ELSE IF \E k \in CARDIOLOGY_KEYWORDS : Contains(text, k) THEN DEPT_CARDIOLOGY
        ELSE DEPT_GENERAL

route_fallback(patient_info) ==
    LET text_parts == << PyStr(GetOr(patient_info, "chief_complaint", Str(<<>>))),
                         PyStr(GetOr(patient_info, "additional_notes", Str(<<>>))),
                         Join(as_str_list(GetOr(patient_info, "symptoms", List(<<>>))), <<" ">>) >>
        text == Lower(Join(text_parts, <<" ">>))
    IN  IF \E k \in RESPIRATORY_KEYWORDS : Contains(text, k) THEN DEPT_RESPIRATORY
        ELSE IF \E k \in CARDIOLOGY_KEYWORDS : Contains(text, k) THEN DEPT_CARDIOLOGY
        ELSE IF \E k \in GASTRO_KEYWORDS : Contains(text, k) THEN DEPT_GASTRO
        ELSE DEPT_GENERAL

format_bullets(items) ==
    IF items = <<>> THEN <<"-", " ", "none">>
    ELSE Join([i \in 1..Len(items) |-> <<"-", " ">> \o items[i]], <<"\n">>)

RENDER_DEFAULT_DISCLAIMER == <<"for", "reference", "only", ",", "no", "substitute", ".">>

\* final_result is a dict of stored values
render_final_reply(department, final_result) ==
    LET diagnosis_summary == PyStr(GetOr(final_result, "diagnosis_summary", Str(<<>>)))
        prescription_advice == as_str_list(GetOr(final_result, "prescription_advice", List(<<>>)))
        home_care == as_str_list(GetOr(final_result, "home_care", List(<<>>)))
        follow_up == as_str_list(GetOr(final_result, "follow_up", List(<<>>)))
        emergency_signs == as_str_list(GetOr(final_result, "emergency_signs", List(<<>>)))
        disclaimer == PyStr(GetOr(final_result, "disclaimer", Str(RENDER_DEFAULT_DISCLAIMER)))
    IN  <<"[summary]", "\n", "department", ":">> \o department \o <<"\n">>
        \o <<"assessment", ":">> \o diagnosis_summary \o <<"\n", "\n">>
        \o <<"[medication]", "\n">> \o format_bullets(prescription_advice) \o <<"\n", "\n">>
        \o <<"[home care]", "\n">> \o format_bullets(home_care) \o <<"\n", "\n">>
        \o <<"[follow up]", "\n">> \o format_bullets(follow_up) \o <<"\n", "\n">>
        \o <<"[emergency]", "\n">> \o format_bullets(emergency_signs) \o <<"\n", "\n">>
        \o <<"[disclaimer]">> \o disclaimer

-----------------------------------------------------------------------------
(* src/app/agents.py: RouterAgent *)

VALID_DEPARTMENTS == {DEPT_RESPIRATORY, DEPT_CARDIOLOGY, DEPT_GASTRO, DEPT_GENERAL}

\* float(value), Null when it raises TypeError or ValueError
to_optional_float(value) ==
    IF value.k = "num" THEN value
    ELSE IF value.k = "bool" THEN Num(IF value.v THEN 1 ELSE 0)
    ELSE IF value.k = "str" /\ IsNumericText(Strip(value.v)) THEN Num(ParseInt(Strip(value.v)))
    ELSE Null

\* a plausible slip: the confidence is passed on as the model gave it
clamp_confidence_unbounded(n) == n

\* max(0.0, min(1.0, confidence))
clamp_confidence(n) == IF n < 0 THEN 0 ELSE IF n > 1 THEN 1 ELSE n

UPLOADED_MATERIAL == <<"shang", "chuan", "cai", "liao">>

CONSULTED_UPLOADS == <<"yi3", "can", "kao">> \o UPLOADED_MATERIAL

DOC_MARKER == <<"(">> \o CONSULTED_UPLOADS \o <<")">>

\* the marker is appended without looking at the text
router_mark_always(reason, document_context) ==
    IF document_context # NO_DOCUMENTS THEN reason \o DOC_MARKER ELSE reason

\* the marker insertion of RouterAgent.run, on reason
router_mark(reason, document_context) ==
    IF document_context # NO_DOCUMENTS /\ ~Contains(reason, UPLOADED_MATERIAL)
    THEN reason \o DOC_MARKER ELSE reason

\* the marker insertion of _normalize_specialist_result and of
\* _normalize_final_result, on preliminary_assessment and diagnosis_summary
mark_consulted(text, document_context) ==
    IF document_context # NO_DOCUMENTS /\ ~Contains(text, CONSULTED_UPLOADS)
    THEN text \o DOC_MARKER ELSE text

ROUTER_FALLBACK_REASON == <<"model", "triage", "unstable", ",", "rule", "fallback", "used", ".">>

ROUTER_DEFAULT_REASON == <<"triaged", "by", "main", "symptoms", "and", "course", ".">>

EVIDENCE_MAX == 8

\* a plausible slip: the model's department is passed on unchecked
router_department_unchecked(department, patient_info) == department

\* a plausible slip: the keywords decide whatever the model answered
router_department_by_keywords(department, patient_info) == route_fallback(patient_info)

\* the department RouterAgent.run settles on
router_department(department, patient_info) ==
    IF department \notin VALID_DEPARTMENTS THEN route_fallback(patient_info) ELSE department

\* a plausible slip: the Router returns a patient_info of its own, the
\* empty record
RouterRunWithRecord(state, raw_result) ==
    [history |-> Append(GetOr(state, "history", <<>>), AssistantTurn(ROUTER_DEFAULT_REASON)),
     patient_info |-> PatientDefaults,
     route |-> [department |-> Str(router_department(safe_text(Get(raw_result, "department"), <<>>),
                                                     GetOr(state, "patient_info", EmptyDict))),
                reason |-> Str(ROUTER_DEFAULT_REASON), key_evidence |-> List(<<>>)],
     assistant_reply |-> ROUTER_DEFAULT_REASON,
     next_action |-> "continue"]

\* RouterAgent.run(state) when chat_json returned raw_result
RouterRun(state, raw_result) ==
    LET history == GetOr(state, "history", <<>>)
        patient_info == GetOr(state, "patient_info", EmptyDict)
        document_context == build_document_context(GetOr(state, "documents_text", List(<<>>)))
        department0 == safe_text(Get(raw_result, "department"), <<>>)
        reason0 == safe_text(Get(raw_result, "reason"), <<>>)
        key_evidence == to_str_list(Get(raw_result, "key_evidence"), EVIDENCE_MAX)
        confidence0 == to_optional_float(Get(raw_result, "confidence"))
        department == router_department(department0, patient_info)
        reason1 == IF department0 \notin VALID_DEPARTMENTS /\ reason0 = <<>>
                   THEN ROUTER_FALLBACK_REASON ELSE reason0
        reason2 == IF reason1 = <<>> THEN ROUTER_DEFAULT_REASON ELSE reason1
        reason == router_mark(reason2, document_context)
        route0 == [department |-> Str(department), reason |-> Str(reason),
                   key_evidence |-> TextList(key_evidence)]
        route == IF confidence0 # Null
                 THEN Update(route0, [confidence |-> Num(clamp_confidence(confidence0.v))])
                 ELSE route0
        assistant_reply == <<"triage", ":">> \o department \o <<".", "reason", ":">> \o reason
                           \o <<".", "entering", "specialist", ".">>
    IN  [history |-> Append(history, AssistantTurn(assistant_reply)),
         route |-> route,
         assistant_reply |-> assistant_reply,
         next_action |-> "continue"]

-----------------------------------------------------------------------------
(* src/app/agents.py: SpecialistAgent *)

\* bool(value) of Python
Truthy(value) ==
    CASE value.k = "null" -> FALSE
      [] value.k = "bool" -> value.v
      [] value.k = "num" -> value.v # 0
      [] value.k = "str" -> value.v # <<>>
      [] value.k = "list" -> value.v # <<>>
      [] OTHER -> DOMAIN value.v # {}

SPECIALIST_DEFAULT_ASSESSMENT == <<"information", "insufficient", ",", "see", "a", "doctor", ".">>

UNNAMED_MEDICATION == <<"unnamed", "medication">>

DEFAULT_PURPOSE == <<"symptomatic", "support">>

FIXED_CHECKS == << <<"blood", "count">>, <<"imaging", "if", "needed">> >>

SPECIALIST_DEFAULT_ALERT == <<"if", "symptoms", "persist", "or", "worsen", ",", "see", "a", "doctor", ".">>

SPECIALIST_URGENT_TIP ==
    <<"if", "persistent", "chest", "pain", ",", "dyspnea", "or", "altered", "consciousness",
      ",", "go", "to", "emergency", ".">>

RECURSIVE medication_suggestions_of(_)
medication_suggestions_of(raw_meds) ==
    IF raw_meds = <<>> THEN <<>>
    ELSE (IF raw_meds[1].k # "obj" THEN <<>>
          ELSE << [name |-> safe_text(Get(raw_meds[1].v, "name"), UNNAMED_MEDICATION),
                   purpose |-> safe_text(Get(raw_meds[1].v, "purpose"), DEFAULT_PURPOSE),
                   otc |-> Truthy(GetOr(raw_meds[1].v, "otc", Bool(TRUE)))] >>)
         \o medication_suggestions_of(Tail(raw_meds))

\* a plausible slip: the urgent line is appended without looking for it
specialist_risk_alerts_appending(raw_alerts, red_flag) ==
    LET risk_alerts == IF raw_alerts = <<>> THEN <<SPECIALIST_DEFAULT_ALERT>> ELSE raw_alerts
    IN  IF red_flag THEN Append(risk_alerts, SPECIALIST_URGENT_TIP) ELSE risk_alerts

\* risk_alerts after the default and the red-flag line
specialist_risk_alerts(raw_alerts, red_flag) ==
    LET risk_alerts == IF raw_alerts = <<>> THEN <<SPECIALIST_DEFAULT_ALERT>> ELSE raw_alerts
    IN  IF red_flag /\ ~InSeq(SPECIALIST_URGENT_TIP, risk_alerts)
        THEN Append(risk_alerts, SPECIALIST_URGENT_TIP)
        ELSE risk_alerts

\* a plausible slip: the fixed checks are added to the model's
specialist_checks_merging(recommended_checks) ==
    IF recommended_checks # <<>> THEN recommended_checks \o FIXED_CHECKS ELSE recommended_checks

\* recommended_checks after `if recommended_checks:`
specialist_checks(recommended_checks) ==
    IF recommended_checks # <<>> THEN FIXED_CHECKS ELSE recommended_checks

normalize_specialist_result(raw_result, patient_info, document_context) ==
    LET preliminary_assessment0 ==
            safe_text(Get(raw_result, "preliminary_assessment"), SPECIALIST_DEFAULT_ASSESSMENT)
        possible_diagnoses == to_str_list(Get(raw_result, "possible_diagnoses"), DEFAULT_MAX_ITEMS)
        recommended_checks0 == to_str_list(Get(raw_result, "recommended_checks"), DEFAULT_MAX_ITEMS)
        risk_alerts0 == to_str_list(Get(raw_result, "risk_alerts"), DEFAULT_MAX_ITEMS)
        raw_meds == GetOr(raw_result, "medication_suggestions", List(<<>>))
        medication_suggestions ==
            IF raw_meds.k = "list" THEN medication_suggestions_of(raw_meds.v) ELSE <<>>
        recommended_checks == specialist_checks(recommended_checks0)
        risk_alerts == specialist_risk_alerts(risk_alerts0, has_red_flag(patient_info))
        preliminary_assessment == mark_consulted(preliminary_assessment0, document_context)
    IN  [preliminary_assessment |-> Str(preliminary_assessment),
         possible_diagnoses |-> TextList(possible_diagnoses),
         recommended_checks |-> TextList(recommended_checks),
         medication_suggestions |-> medication_suggestions,
         risk_alerts |-> TextList(risk_alerts)]

\* SpecialistAgent.run(state) when chat_json returned raw_result
SpecialistRun(state, raw_result) ==
    LET history == GetOr(state, "history", <<>>)
        patient_info == GetOr(state, "patient_info", EmptyDict)
        route == GetOr(state, "route", EmptyDict)
        department == safe_text(Get(route, "department"), DEPT_GENERAL)
        document_context == build_document_context(GetOr(state, "documents_text", List(<<>>)))
        specialist_result == normalize_specialist_result(raw_result, patient_info, document_context)
        assistant_reply == department \o <<"specialist", "done", ",", "writing", "summary", ".">>
    IN  [history |-> Append(history, AssistantTurn(assistant_reply)),
         specialist_result |-> specialist_result,
         assistant_reply |-> assistant_reply,
         next_action |-> "continue"]

-----------------------------------------------------------------------------
(* src/app/agents.py: SummaryAgent *)

SUMMARY_DEFAULT_DIAGNOSIS == <<"preliminary", "assessment", ",", "see", "a", "doctor", ".">>

SUMMARY_DEFAULT_DISCLAIMER == <<"for", "health", "reference", "only", ".">>

DEFAULT_PRESCRIPTION_ADVICE == << <<"discuss", "medication", "with", "a", "doctor", ".">> >>

DEFAULT_HOME_CARE == << <<"rest">>, <<"fluids">>, <<"light", "diet">>, <<"watch", "symptoms">> >>

DEFAULT_FOLLOW_UP == << <<"revisit", "if", "no", "relief", "in", "2", "-", "3", "days", ".">> >>

DEFAULT_EMERGENCY_SIGNS ==
    << <<"persistent", "chest", "pain">>, <<"dyspnea">>, <<"altered", "consciousness">>,
       <<"persistent", "high", "fever">> >>

SUMMARY_URGENT_TIP ==
    <<"if", "persistent", "chest", "pain", "or", "worsening", "dyspnea", ",", "go", "to",
      "emergency", ".">>

\* a plausible slip: no default for an empty list
list_or_default_missing(items, default) == items

\* a list field of the final result: the model's list, or the default when it is empty
list_or_default(items, default) == IF items = <<>> THEN default ELSE items

\* emergency_signs after the default and the red-flag line
summary_emergency_signs(raw_signs, red_flag) ==
    LET emergency_signs == list_or_default(raw_signs, DEFAULT_EMERGENCY_SIGNS)
    IN  IF red_flag /\ ~InSeq(SUMMARY_URGENT_TIP, emergency_signs)
        THEN Append(emergency_signs, SUMMARY_URGENT_TIP)
        ELSE emergency_signs

normalize_final_result(raw_result, patient_info, document_context) ==
    LET diagnosis_summary0 ==
            safe_text(Get(raw_result, "diagnosis_summary"), SUMMARY_DEFAULT_DIAGNOSIS)
        prescription_advice == to_str_list(Get(raw_result, "prescription_advice"), DEFAULT_MAX_ITEMS)
        home_care == to_str_list(Get(raw_result, "home_care"), DEFAULT_MAX_ITEMS)
        follow_up == to_str_list(Get(raw_result, "follow_up"), DEFAULT_MAX_ITEMS)
        emergency_signs0 == to_str_list(Get(raw_result, "emergency_signs"), DEFAULT_MAX_ITEMS)
        disclaimer == safe_text(Get(raw_result, "disclaimer"), SUMMARY_DEFAULT_DISCLAIMER)
        diagnosis_summary == mark_consulted(diagnosis_summary0, document_context)
    IN  [diagnosis_summary |-> Str(diagnosis_summary),
         prescription_advice |-> TextList(list_or_default(prescription_advice, DEFAULT_PRESCRIPTION_ADVICE)),
         home_care |-> TextList(list_or_default(home_care, DEFAULT_HOME_CARE)),
         follow_up |-> TextList(list_or_default(follow_up, DEFAULT_FOLLOW_UP)),
         emergency_signs |->
             TextList(summary_emergency_signs(emergency_signs0, has_red_flag(patient_info))),
         disclaimer |-> Str(disclaimer)]

\* SummaryAgent.prepare(state) when chat_json returned raw_result
SummaryPrepare(state, raw_result) ==
    LET patient_info == GetOr(state, "patient_info", EmptyDict)
        document_context == build_document_context(GetOr(state, "documents_text", List(<<>>)))
    IN  [final_result |-> normalize_final_result(raw_result, patient_info, document_context),
         next_action |-> "done"]

\* a renderer that gives no text
fallback_reply_nothing(state) == <<>>

\* SummaryAgent.fallback_reply(state): render_final_reply does not raise on
\* a final_result that normalize_final_result built
fallback_reply(state) ==
    LET route == GetOr(state, "route", EmptyDict)
        department == safe_text(Get(route, "department"), DEPT_GENERAL)
        final_result == GetOr(state, "final_result", EmptyDict)
    IN  render_final_reply(department, final_result)

-----------------------------------------------------------------------------
(* The model's answers: what chat_json can return to each stage.  A key  *)
(* whose value is Absent is left out of the dict.                         *)

Absent == [k |-> "absent"]

DictOf(f) == [key \in {x \in DOMAIN f : f[x] # Absent} |-> f[key]]

Blank == Str(<<" ">>)

ChestPain == <<"xiong", "tong">>

Cough == <<"ke2">>

\* patient_info of the model: the three required fields, each left out,
\* blank or filled
RequiredInfos ==
    { Obj(DictOf([chief_complaint |-> c, duration |-> d, severity |-> s])) :
        c \in {Absent, Blank, Str(<<" ", "x", " ">>)},
        d \in {Absent, Blank, Str(<<"3", "d">>)},
        s \in {Absent, Null, Str(<<"m", "i", "l", "d">>)} }

\* patient_info of the model: the other fields
OtherInfos ==
    { Obj([age |-> Num(30), sex |-> Str(<<"f">>), additional_notes |-> Str(<<>>),
           symptoms |-> List(<<Str(Cough), Str(<<" ">>), Str(Cough), Num(7)>>),
           allergies |-> List(<<Str(<<"p">>)>>)]),
      Obj([age |-> Str(<<"o", "l", "d">>), sex |-> Blank,
           additional_notes |-> Str(<<"x", "hun", "mi">>), symptoms |-> List(<<>>)]),
      Obj([age |-> Num(0 - 5), sex |-> Null, additional_notes |-> Null,
           symptoms |-> List(<<Str(<<"xiong">>), Str(<<"tong">>)>>)]),
      Obj([age |-> Str(<<" ", "4", "0">>), chief_complaint |-> Str(<<"x">> \o ChestPain),
           symptoms |-> Str(<<"x">>), additional_notes |-> Str(<<>>)]),
      Obj([age |-> Null, chief_complaint |-> Str(<<"xiong", "men">>),
           symptoms |-> List(<<Str(<<"fu", "tong">>)>>), additional_notes |-> Str(<<>>)]),
      Obj([age |-> List(<<>>), chief_complaint |-> Str(<<"fu", "xie">>),
           symptoms |-> List(<<Str(<<"x">> \o ChestPain)>>), additional_notes |-> Str(<<>>)]),
      Str(<<"x">>), List(<<>>) }

IsCompleteAnswers ==
    {Absent, Bool(TRUE), Bool(FALSE), Str(<<" ", "Y", "e", "s">>), Str(<<"o", "k">>), Str(<<"1">>),
     Num(1)}

MissingFieldsAnswers ==
    { Absent, List(<<>>), List(<<Str(Word("age")), Str(Word("age"))>>),
      List(<<Str(Word("bogus")), Str(<<" ", "severity", " ">>), Str(Word("additional_notes"))>>) }

NineQuestions == [i \in 1..9 |-> Str(<<"q", Digits[i + 1]>>)]

MissingQuestionsAnswers ==
    { List(<<>>), List(<<Str(Word("severity"))>>),
      List(<<Str(<<"q", "1">>), Str(<<>>), Str(<<"q", "1">>), Str(<<"q", "2">>)>>),
      List(NineQuestions), Str(<<"q">>) }

IntakeResponses ==
    { DictOf([patient_info |-> p, is_complete |-> c, missing_fields |-> m]) :
        p \in RequiredInfos, c \in IsCompleteAnswers, m \in MissingFieldsAnswers }
    \cup { DictOf([patient_info |-> p, is_complete |-> c]) :
            p \in OtherInfos, c \in {Absent, Bool(TRUE)} }
    \cup { DictOf([missing_fields |-> m, missing_questions |-> q]) :
            m \in MissingFieldsAnswers, q \in MissingQuestionsAnswers }
    \cup { EmptyDict }

\* documents_text of a call: none, only blank ones, one, two
DocumentSets ==
    { List(<<>>), List(<<Str(<<" ">>)>>), List(<<Str(<<"d", "1">>)>>),
      List(<<Str(<<>>), Str(<<"d", "2", " ">>)>>) }

RouterResponses ==
    { DictOf([department |-> d, reason |-> r]) :
        d \in {Absent, Null, Str(DEPT_RESPIRATORY), Str(<<" ">> \o DEPT_GENERAL \o <<"\n">>),
               Str(<<"gu", "ke1">>), Num(3), List(<<Str(DEPT_CARDIOLOGY)>>)},
        r \in {Absent, Blank, Str(<<"r">>), Str(<<"r">> \o UPLOADED_MATERIAL),
               Str(DOC_MARKER \o <<"r">>)} }
    \cup { DictOf([department |-> d, confidence |-> c, key_evidence |-> List(NineQuestions)]) :
            d \in {Str(DEPT_GASTRO), Str(<<"gu", "ke1">>)},
            c \in {Absent, Null, Num(0 - 1), Num(0), Num(1), Num(2), Str(<<"h", "i">>),
                   Str(<<" ", "2">>), Bool(TRUE), List(<<Num(1)>>)} }

SpecialistResponses ==
    { DictOf([preliminary_assessment |-> a, risk_alerts |-> r]) :
        a \in {Absent, Str(<<"a">>), Str(<<"a">> \o DOC_MARKER)},
        r \in {Absent, List(<<>>), List(<<Blank, Null>>), List(<<Str(<<"r">>)>>),
               List(<<Str(SPECIALIST_URGENT_TIP), Str(<<"r">>),
                      Str(<<" ">> \o SPECIALIST_URGENT_TIP)>>), Str(<<"r">>)} }
    \cup { DictOf([recommended_checks |-> c, medication_suggestions |-> m]) :
            c \in {Absent, List(<<Str(<<"x", "-", "r", "a", "y">>)>>), List(<<Blank>>)},
            m \in {Absent, Null,
                   List(<<Obj([name |-> Str(<<"m">>), otc |-> Bool(FALSE)]), Str(<<"m">>),
                          Obj(EmptyDict)>>)} }

SummaryListAnswers == {Absent, List(<<>>), List(<<Blank>>), List(<<Str(<<"s">>)>>)}

SummaryResponses ==
    { DictOf([diagnosis_summary |-> d, prescription_advice |-> l, home_care |-> l,
              follow_up |-> l, emergency_signs |-> e, disclaimer |-> d]) :
        d \in {Absent, Str(<<"t">>)},
        l \in SummaryListAnswers,
        e \in SummaryListAnswers
              \cup {List(<<Str(SUMMARY_URGENT_TIP), Str(SUMMARY_URGENT_TIP)>>),
                    List(<<Str(SPECIALIST_URGENT_TIP)>>)} }
    \cup { DictOf([prescription_advice |-> a, home_care |-> b, follow_up |-> c]) :
            a \in {Absent, List(<<Str(<<"s">>)>>)},
            b \in {Absent, List(<<Str(<<"s">>)>>)},
            c \in {Absent, List(<<Str(<<"s">>)>>)} }
    \cup { [diagnosis_summary |-> Str(<<"t">> \o DOC_MARKER)],
           [diagnosis_summary |-> Str(CONSULTED_UPLOADS)] }

\* the route a Specialist call finds in its state
RoutesGiven ==
    { EmptyDict,
      [department |-> Str(DEPT_CARDIOLOGY), reason |-> Str(<<"r">>), key_evidence |-> List(<<>>)] }

-----------------------------------------------------------------------------
(* SpecAgents: the stages as functions of the patient record and of the  *)
(* model's answer.  A call computes the stage's update; Return merges the *)
(* patient_info of an Intake update, as the controller does.              *)

Idle == [stage |-> "idle"]

NoSessions == [s \in {} |-> Null]

AgentsInit ==
    /\ patient = EmptyDict
    /\ call = Idle
    /\ db = NoSessions
    /\ turn = NoSessions

AgentState(docs) ==
    [history |-> <<>>, patient_info |-> patient, documents_text |-> docs,
     next_action |-> "continue"]

IntakeCall ==
    /\ call = Idle
    /\ \E raw \in IntakeResponses :
        LET state == Update(AgentState(List(<<>>)), [user_input |-> <<"u">>])
        IN  call' = [stage |-> "intake", state |-> state, raw |-> raw,
                     update |-> IntakeRun(state, raw)]
    /\ UNCHANGED <<patient, db, turn>>

RouterCall ==
    /\ call = Idle
    /\ \E raw \in RouterResponses, docs \in DocumentSets :
        LET state == AgentState(docs)
        IN  call' = [stage |-> "router", state |-> state, raw |-> raw,
                     update |-> RouterRun(state, raw)]
    /\ UNCHANGED <<patient, db, turn>>

SpecialistCall ==
    /\ call = Idle
    /\ \E raw \in SpecialistResponses, docs \in DocumentSets, route \in RoutesGiven :
        LET state == Update(AgentState(docs), [route |-> route])
        IN  call' = [stage |-> "specialist", state |-> state, raw |-> raw,
                     update |-> SpecialistRun(state, raw)]
    /\ UNCHANGED <<patient, db, turn>>

SummaryCall ==
    /\ call = Idle
    /\ \E raw \in SummaryResponses, docs \in DocumentSets :
        LET state == AgentState(docs)
        IN  call' = [stage |-> "summary_structured", state |-> state, raw |-> raw,
                     update |-> SummaryPrepare(state, raw)]
    /\ UNCHANGED <<patient, db, turn>>

Return ==
    /\ call # Idle
    /\ patient' = IF call.stage = "intake" THEN call.update.patient_info ELSE patient
    /\ call' = Idle
    /\ UNCHANGED <<db, turn>>

AgentsNext == IntakeCall \/ RouterCall \/ SpecialistCall \/ SummaryCall \/ Return

SpecAgents == AgentsInit /\ [][AgentsNext]_vars

-----------------------------------------------------------------------------
(* src/main.py: the session store and the helpers of consult_stream *)

\* _new_state(): create_initial_state() of app.workflow, or its literal copy
new_state ==
    [history |-> <<>>, patient_info |-> EmptyDict, documents_text |-> List(<<>>),
     next_action |-> "continue"]

NewBucket == [state |-> new_state, documents |-> <<>>]

\* SESSION_DB after _get_bucket(sid), sid non-empty
get_bucket(sessions, sid) ==
    IF sid \in DOMAIN sessions THEN sessions
    ELSE [x \in DOMAIN sessions \cup {sid} |-> IF x = sid THEN NewBucket ELSE sessions[x]]

\* list(_chunk_text(text, size))
RECURSIVE chunk_text(_, _)
chunk_text(text, size) ==
    IF text = <<>> THEN << <<>> >>
    ELSE IF Len(text) <= size THEN <<text>>
    ELSE <<SubSeq(text, 1, size)>> \o chunk_text(SubSeq(text, size + 1, Len(text)), size)

REPLY_CHUNK_SIZE == 10

UserTurn(content) == [role |-> "user", content |-> content]

\* a plausible slip: only 'done' is told apart
infer_case_status_open(next_action) == IF next_action = "done" THEN "closed" ELSE "in_progress"

infer_case_status(next_action) ==
    IF next_action = "ask_user_more" THEN "collecting"
    ELSE IF next_action = "done" THEN "closed"
    ELSE "in_progress"

build_state_snapshot(session_id, state, docs) ==
    [session_id |-> session_id,
     next_action |-> GetOr(state, "next_action", "continue"),
     case_status |-> infer_case_status(GetOr(state, "next_action", "continue")),
     followup_round |->
         Cardinality({i \in 1..Len(GetOr(state, "history", <<>>)) : state["history"][i].role = "user"}),
     route |-> GetOr(state, "route", EmptyDict),
     doc_count |-> Len(docs)]

\* the documents_text consult_stream builds from the bucket's documents
documents_text_of(docs) ==
    LET kept == {i \in 1..Len(docs) : Strip(docs[i].extracted_text) # <<>>}
        nth(n) == CHOOSE i \in kept : Cardinality({j \in kept : j < i}) = n - 1
    IN  List([n \in 1..Cardinality(kept) |-> Str(Strip(docs[nth(n)].extracted_text))])

(* the events of the stream *)

MetaEvent(sid, docs) == [type |-> "meta", session_id |-> sid, doc_count |-> Len(docs)]

StageStartEvent(stage) == [type |-> "stage_start", stage |-> stage]

\* tick stands for the message _build_progress_message(stage, tick)
StageProgressEvent(stage, tick) == [type |-> "stage_progress", stage |-> stage, tick |-> tick]

\* the stage_done payload of _run_blocking_stage, from the merged state
StageDoneEvent(stage, state) ==
    IF stage = "router"
    THEN [type |-> "stage_done", stage |-> stage,
          next_action |-> GetOr(state, "next_action", "continue"),
          department |-> GetOr(GetOr(state, "route", EmptyDict), "department", Str(<<>>))]
    ELSE [type |-> "stage_done", stage |-> stage,
          next_action |-> GetOr(state, "next_action", "continue")]

\* stage_progress of summary_reply telling that the stream broke
StreamBrokenEvent == [type |-> "stage_progress", stage |-> "summary_reply", tick |-> 0 - 1]

ReplyDoneEvent == [type |-> "stage_done", stage |-> "summary_reply"]

TokenEvent(content) == [type |-> "token", content |-> content]

FinalEvent(sid, assistant_reply, state, docs) ==
    [type |-> "final", session_id |-> sid, assistant_reply |-> assistant_reply,
     next_action |-> state["next_action"],
     state |-> build_state_snapshot(sid, state, docs)]

ErrorEvent == [type |-> "error"]

DoneMarker == [type |-> "[DONE]"]

-----------------------------------------------------------------------------
(* What the model answers to the stages of a turn.  Raised stands for a   *)
(* chat_json call that raises: chat_text lets the transport's exception   *)
(* through, and chat_json catches only those of json.loads.               *)

Raised == [k |-> "raised"]

CompleteAnswer ==
    [patient_info |-> Obj([chief_complaint |-> Str(ChestPain), duration |-> Str(<<"3", "d">>),
                           severity |-> Str(<<"m", "i", "l", "d">>)]),
     is_complete |-> Bool(TRUE)]

PartialAnswer ==
    [patient_info |-> Obj([chief_complaint |-> Str(Cough)]),
     missing_fields |-> List(<<Str(Word("age"))>>)]

TurnIntakeAnswers == {CompleteAnswer, PartialAnswer, Raised}

TurnRouterAnswers == {[department |-> Str(<<"gu", "ke1">>)], Raised}

TurnSpecialistAnswers == {EmptyDict, Raised}

TurnSummaryAnswers == {[diagnosis_summary |-> Str(<<"t">>)], Raised}

\* the fragments chat_stream yields: never empty, possibly blank
StreamFragments == {<<"t">>, <<" ">>}

\* stage_callable(state) of each blocking stage
StageCallable(stage, state, raw) ==
    CASE stage = "intake" -> IntakeRun(state, raw)
      [] stage = "router" -> RouterRun(state, raw)
      [] stage = "specialist" -> SpecialistRun(state, raw)
      [] OTHER -> SummaryPrepare(state, raw)

StageAnswers(stage) ==
    CASE stage = "intake" -> TurnIntakeAnswers
      [] stage = "router" -> TurnRouterAnswers
      [] stage = "specialist" -> TurnSpecialistAnswers
      [] OTHER -> TurnSummaryAnswers

\* SummaryAgent.run(state) when chat_json returned raw_result: the node
\* 'summary' of the graph
SummaryRun(state, raw_result) ==
    LET update == SummaryPrepare(state, raw_result)
        assistant_reply == fallback_reply(Update(state, update))
    IN  Update(update,
               [assistant_reply |-> assistant_reply,
                history |-> Append(GetOr(state, "history", <<>>), AssistantTurn(assistant_reply))])

\* a plausible slip: the graph goes on to the router whatever Intake says
after_intake_to_router(state) == "to_router"

\* _after_intake: next_action is one of the words the agents write, which
\* str() and strip() leave as they are
after_intake(state) ==
    IF GetOr(state, "next_action", "") = "ask_user_more" THEN "ask_more" ELSE "to_router"

\* the graph of create_workflow, invoked with `state`: it is at its entry
\* point
GraphStart(state) == [state |-> state, at |-> "intake"]

\* the agent of a node of the graph, called with the state of the graph
NodeCallable(node, state, raw) ==
    IF node = "summary" THEN SummaryRun(state, raw) ELSE StageCallable(node, state, raw)

\* the edge out of a node, once its update is merged
GraphEdge(node, merged) ==
    [state |-> merged,
     at |-> CASE node = "intake" -> IF after_intake(merged) = "ask_more" THEN "END" ELSE "router"
              [] node = "router" -> "specialist"
              [] node = "specialist" -> "summary"
              [] OTHER -> "END"]

\* the graph runs the node it is at with the model's answer raw, merges the
\* update the node returns and follows the edge out of the node; at END it
\* runs nothing
GraphNode(graph, raw) ==
    IF graph.at \notin {"intake", "router", "specialist", "summary"} THEN graph
    ELSE GraphEdge(graph.at, Update(graph.state, NodeCallable(graph.at, graph.state, raw)))

\* the blocking stage event_generator runs after `stage`
NextStage(stage) ==
    CASE stage = "intake" -> "router"
      [] stage = "router" -> "specialist"
      [] OTHER -> "summary_structured"

-----------------------------------------------------------------------------
(* Spec: the requests to /api/consult/stream.  A slot of `turn` is one    *)
(* request; its pc is the yield at which event_generator is suspended.    *)

SessionIds == {"a"}

UserInputs == {<<"u">>}

MaxRequests == 1
MaxTicks == 1
MaxFragments == 2

NoTask == [k |-> "none"]
Running == [k |-> "running"]

FreeTurn ==
    [pc |-> "free", sid |-> "", user_input |-> <<>>, state |-> EmptyDict, alias |-> FALSE,
     before |-> EmptyDict, events |-> <<>>, stage |-> "", task |-> NoTask, tick |-> 0,
     reply |-> <<>>, rest |-> <<>>, fragments |-> 0, raised |-> FALSE, committed |-> FALSE,
     served |-> 0, graph |-> [state |-> EmptyDict, at |-> ""]]

Slots == DOMAIN turn

Init ==
    /\ patient = EmptyDict
    /\ call = Idle
    /\ db = NoSessions
    /\ turn = [t \in {1} |-> FreeTurn]

Emit(t, event) == Append(turn[t].events, event)

\* the generator is suspended at a yield (or not started) and can be resumed
Suspended(t) ==
    turn[t].pc \in {"accepted", "meta", "stage_start", "stage_progress", "stage_done",
                    "ask_token", "reply_start", "streaming", "stream_failed",
                    "fallback_token", "reply_done", "final", "error", "done_marker"}

\* the turn is over: the generator returned, the request was refused, or
\* the caller went away
Over(t) == turn[t].pc \in {"free", "finished", "rejected", "cancelled"}

\* a plausible slip: the bucket is fetched before user_input is looked at
RejectAfterBucket(t) ==
    /\ Over(t)
    /\ turn[t].served < MaxRequests
    /\ \E sid \in {<<>>, <<" ">>, <<"a">>}, input \in {<<" ">>, <<"u">>} :
        /\ Strip(sid) = <<>> \/ Strip(input) = <<>>
        /\ db' = IF Strip(sid) = <<>> THEN db ELSE get_bucket(db, Strip(sid)[1])
        /\ turn' = [turn EXCEPT ![t] =
                        [FreeTurn EXCEPT !.pc = "rejected", !.served = turn[t].served + 1]]
    /\ UNCHANGED <<patient, call>>

\* consult_stream refuses a request whose session_id or user_input is blank
Reject(t) ==
    /\ Over(t)
    /\ turn[t].served < MaxRequests
    /\ \E sid \in {<<>>, <<" ">>, <<"a">>}, input \in {<<" ">>, <<"u">>} :
        /\ Strip(sid) = <<>> \/ Strip(input) = <<>>
        /\ turn' = [turn EXCEPT ![t] =
                        [FreeTurn EXCEPT !.pc = "rejected", !.served = turn[t].served + 1]]
    /\ UNCHANGED <<patient, call, db>>

\* consult_stream accepts a request: _get_bucket, then the StreamingResponse
Request(t) ==
    /\ Over(t)
    /\ turn[t].served < MaxRequests
    /\ \E sid \in SessionIds, input \in UserInputs :
        /\ db' = get_bucket(db, sid)
        /\ turn' = [turn EXCEPT ![t] =
                        [FreeTurn EXCEPT !.pc = "accepted", !.sid = sid, !.user_input = input,
                                         !.before = get_bucket(db, sid)[sid].state,
                                         !.served = turn[t].served + 1]]
    /\ UNCHANGED <<patient, call>>

\* upload_documents: _get_bucket, then the call of the extractor, which
\* raises on its arguments before any document is stored
UploadDocuments ==
    /\ \E sid \in SessionIds :
        /\ sid \notin DOMAIN db
        /\ db' = get_bucket(db, sid)
    /\ UNCHANGED <<patient, call, turn>>

\* a history list that all the sessions share
AppendSharedEverywhere(sessions, sid, entry) ==
    [x \in DOMAIN sessions |-> [sessions[x] EXCEPT !.state["history"] = Append(@, entry)]]

\* _append_history(state, role, content) on the list object the bucket's
\* state holds too: every dict that holds this list sees the new entry
AppendShared(sessions, sid, entry) ==
    [sessions EXCEPT ![sid].state["history"] = Append(@, entry)]

\* event_generator up to its first yield: the shallow copy of the bucket's
\* state, the user turn appended to its history list, the meta event
\* a plausible slip: every turn starts from a fresh state
BeginFresh(t) ==
    /\ turn[t].pc = "accepted"
    /\ LET sid == turn[t].sid
           bucket == db[sid]
           entry == UserTurn(turn[t].user_input)
           state == Update(new_state,
                           [user_input |-> turn[t].user_input,
                            documents_text |-> documents_text_of(bucket.documents),
                            history |-> Append(bucket.state["history"], entry)])
       IN  /\ db' = AppendShared(db, sid, entry)
           /\ turn' = [u \in Slots |->
                        IF u = t
                        THEN [turn[t] EXCEPT !.pc = "meta", !.state = state, !.alias = TRUE,
                                             !.events = Emit(t, MetaEvent(sid, bucket.documents))]
                        ELSE IF turn[u].sid = sid /\ turn[u].alias
                        THEN [turn[u] EXCEPT !.state["history"] = Append(@, entry)]
                        ELSE turn[u]]
    /\ UNCHANGED <<patient, call>>

Begin(t) ==
    /\ turn[t].pc = "accepted"
    /\ LET sid == turn[t].sid
           bucket == db[sid]
           entry == UserTurn(turn[t].user_input)
           state == Update(bucket.state,
                           [user_input |-> turn[t].user_input,
                            documents_text |-> documents_text_of(bucket.documents),
                            history |-> Append(bucket.state["history"], entry)])
       IN  /\ db' = AppendShared(db, sid, entry)
           /\ turn' = [u \in Slots |->
                        IF u = t
                        THEN [turn[t] EXCEPT !.pc = "meta", !.state = state, !.alias = TRUE,
                                             !.events = Emit(t, MetaEvent(sid, bucket.documents)),
                                             !.graph = GraphStart(state)]
                        ELSE IF turn[u].sid = sid /\ turn[u].alias
                        THEN [turn[u] EXCEPT !.state["history"] = Append(@, entry)]
                        ELSE turn[u]]
    /\ UNCHANGED <<patient, call>>

\* the pipeline goes on after Intake although it asked for more
continues_whatever(state) == TRUE

\* the test of event_generator after the intake stage, negated
continues_after_intake(state) == GetOr(state, "next_action", "") # "ask_user_more"

ASK_DEFAULT_REPLY == <<"please", "tell", "more", ".">>

\* assistant_reply of the ask_user_more branch
ask_reply(state) ==
    IF GetOr(state, "assistant_reply", <<>>) = <<>> THEN ASK_DEFAULT_REPLY
    ELSE state["assistant_reply"]

\* _run_blocking_stage: the stage_start event
StageStart(t) ==
    /\ \/ turn[t].pc = "meta"
       \/ /\ turn[t].pc = "stage_done"
          /\ turn[t].stage \in {"intake", "router", "specialist"}
          /\ turn[t].stage = "intake" => continues_after_intake(turn[t].state)
    /\ LET stage == IF turn[t].pc = "meta" THEN "intake" ELSE NextStage(turn[t].stage)
       IN  turn' = [turn EXCEPT ![t].pc = "stage_start", ![t].stage = stage,
                                ![t].events = Emit(t, StageStartEvent(stage))]
    /\ UNCHANGED <<patient, call, db>>

\* _run_blocking_stage: the task is created and, not being done yet, the
\* first stage_progress is yielded
TaskCreate(t) ==
    /\ turn[t].pc = "stage_start"
    /\ turn' = [turn EXCEPT ![t].pc = "stage_progress", ![t].task = Running, ![t].tick = 1,
                            ![t].events = Emit(t, StageProgressEvent(turn[t].stage, 0))]
    /\ UNCHANGED <<patient, call, db>>

\* a plausible slip: the stage writes its result into the state it was
\* given
StageRunInPlace(t) ==
    /\ turn[t].task = Running
    /\ \E raw \in StageAnswers(turn[t].stage) :
        turn' = IF raw = Raised THEN [turn EXCEPT ![t].task = Raised]
                ELSE [turn EXCEPT
                        ![t].task = [k |-> "update",
                                     v |-> StageCallable(turn[t].stage, turn[t].state, raw)],
                        ![t].state = Update(@, StageCallable(turn[t].stage, turn[t].state, raw))]
    /\ UNCHANGED <<patient, call, db>>

\* the worker thread runs stage_callable(state) to its end: the update it
\* returns, or the exception of the model call
StageRun(t) ==
    /\ turn[t].task = Running
    /\ \E raw \in StageAnswers(turn[t].stage) :
        turn' = [turn EXCEPT ![t].task =
                    IF raw = Raised THEN Raised
                    ELSE [k |-> "update", v |-> StageCallable(turn[t].stage, turn[t].state, raw)],
                             ![t].graph = IF raw = Raised THEN @ ELSE GraphNode(@, raw)]
    /\ UNCHANGED <<patient, call, db>>

\* _run_blocking_stage: the task is not done after the sleep
Heartbeat(t) ==
    /\ turn[t].pc = "stage_progress"
    /\ turn[t].task = Running
    /\ turn[t].tick <= MaxTicks
    /\ turn' = [turn EXCEPT ![t].tick = @ + 1,
                            ![t].events = Emit(t, StageProgressEvent(turn[t].stage, turn[t].tick))]
    /\ UNCHANGED <<patient, call, db>>

\* _run_blocking_stage: the task is done; `await task` gives the update,
\* which is merged into the turn's state, and stage_done is yielded
StageDone(t) ==
    /\ turn[t].pc = "stage_progress"
    /\ turn[t].task.k = "update"
    /\ LET merged == Update(turn[t].state, turn[t].task.v)
       IN  turn' = [turn EXCEPT ![t].pc = "stage_done", ![t].task = NoTask,
                                ![t].state = merged,
                                ![t].alias = IF "history" \in DOMAIN turn[t].task.v THEN FALSE ELSE @,
                                ![t].events = Emit(t, StageDoneEvent(turn[t].stage, merged))]
    /\ UNCHANGED <<patient, call, db>>

\* the except clause of event_generator without its error event
StageRaiseSilently(t) ==
    /\ turn[t].pc = "stage_progress"
    /\ turn[t].task = Raised
    /\ turn' = [turn EXCEPT ![t].pc = "error", ![t].task = NoTask, ![t].raised = TRUE]
    /\ UNCHANGED <<patient, call, db>>

\* _run_blocking_stage: the task is done; `await task` raises, and the
\* except clause of event_generator yields the error event
StageRaise(t) ==
    /\ turn[t].pc = "stage_progress"
    /\ turn[t].task = Raised
    /\ turn' = [turn EXCEPT ![t].pc = "error", ![t].task = NoTask, ![t].raised = TRUE,
                            ![t].events = Emit(t, ErrorEvent)]
    /\ UNCHANGED <<patient, call, db>>

\* bucket["state"] = state: the bucket now holds the turn's dict; a dict
\* that shared the history list of the bucket's old state keeps that list
Commit(sessions, sid, state) == [sessions EXCEPT ![sid].state = state]

Unshare(t, sid) ==
    [u \in Slots |-> IF u # t /\ turn[u].sid = sid THEN [turn[u] EXCEPT !.alias = FALSE] ELSE turn[u]]

\* the ask_user_more branch: the first token of the reply
AskFirstToken(t) ==
    /\ turn[t].pc = "stage_done"
    /\ turn[t].stage = "intake"
    /\ ~continues_after_intake(turn[t].state)
    /\ LET parts == chunk_text(ask_reply(turn[t].state), REPLY_CHUNK_SIZE)
       IN  turn' = [turn EXCEPT ![t].pc = "ask_token", ![t].reply = ask_reply(turn[t].state),
                                ![t].rest = Tail(parts),
                                ![t].events = Emit(t, TokenEvent(Head(parts)))]
    /\ UNCHANGED <<patient, call, db>>

\* the ask_user_more branch: the next token of the reply
AskNextToken(t) ==
    /\ turn[t].pc = "ask_token"
    /\ turn[t].rest # <<>>
    /\ turn' = [turn EXCEPT ![t].rest = Tail(@),
                            ![t].events = Emit(t, TokenEvent(Head(turn[t].rest)))]
    /\ UNCHANGED <<patient, call, db>>

\* the ask_user_more branch: the commit and the final event
AskFinal(t) ==
    /\ turn[t].pc = "ask_token"
    /\ turn[t].rest = <<>>
    /\ LET sid == turn[t].sid
           state == turn[t].state
       IN  /\ db' = Commit(db, sid, state)
           /\ turn' = [Unshare(t, sid) EXCEPT
                         ![t].pc = "final", ![t].committed = TRUE,
                         ![t].events = Emit(t, FinalEvent(sid, turn[t].reply, state, db[sid].documents))]
    /\ UNCHANGED <<patient, call>>

\* the stage_start event of summary_reply
ReplyStart(t) ==
    /\ turn[t].pc = "stage_done"
    /\ turn[t].stage = "summary_structured"
    /\ turn' = [turn EXCEPT ![t].pc = "reply_start", ![t].stage = "summary_reply",
                            ![t].reply = <<>>, ![t].fragments = 0,
                            ![t].events = Emit(t, StageStartEvent("summary_reply"))]
    /\ UNCHANGED <<patient, call, db>>

\* stream_reply yields a fragment: it is added to the reply and sent
StreamToken(t) ==
    /\ turn[t].pc \in {"reply_start", "streaming"}
    /\ turn[t].fragments < MaxFragments
    /\ \E token \in StreamFragments :
        turn' = [turn EXCEPT ![t].pc = "streaming", ![t].fragments = @ + 1,
                             ![t].reply = @ \o token,
                             ![t].events = Emit(t, TokenEvent(token))]
    /\ UNCHANGED <<patient, call, db>>

\* stream_reply raises: the stage_progress event of the except clause
StreamRaise(t) ==
    /\ turn[t].pc \in {"reply_start", "streaming"}
    /\ turn' = [turn EXCEPT ![t].pc = "stream_failed", ![t].events = Emit(t, StreamBrokenEvent)]
    /\ UNCHANGED <<patient, call, db>>

\* the stream is over (exhausted, or broken) and the reply is not blank:
\* the stage_done event of summary_reply
ReplyDone(t) ==
    /\ \/ turn[t].pc \in {"reply_start", "streaming", "stream_failed"}
          /\ Strip(turn[t].reply) # <<>>
       \/ turn[t].pc = "fallback_token" /\ turn[t].rest = <<>>
    /\ turn' = [turn EXCEPT ![t].pc = "reply_done", ![t].events = Emit(t, ReplyDoneEvent)]
    /\ UNCHANGED <<patient, call, db>>

\* a plausible slip: the fallback text replaces the blank reply
FallbackFirstTokenFresh(t) ==
    /\ turn[t].pc \in {"reply_start", "streaming", "stream_failed"}
    /\ Strip(turn[t].reply) = <<>>
    /\ LET parts == chunk_text(fallback_reply(turn[t].state), REPLY_CHUNK_SIZE)
       IN  turn' = [turn EXCEPT ![t].pc = "fallback_token", ![t].reply = Head(parts),
                                ![t].rest = Tail(parts),
                                ![t].events = Emit(t, TokenEvent(Head(parts)))]
    /\ UNCHANGED <<patient, call, db>>

\* the stream is over and the reply is blank: the first token of
\* fallback_reply(state)
FallbackFirstToken(t) ==
    /\ turn[t].pc \in {"reply_start", "streaming", "stream_failed"}
    /\ Strip(turn[t].reply) = <<>>
    /\ LET parts == chunk_text(fallback_reply(turn[t].state), REPLY_CHUNK_SIZE)
       IN  turn' = [turn EXCEPT ![t].pc = "fallback_token", ![t].reply = @ \o Head(parts),
                                ![t].rest = Tail(parts),
                                ![t].events = Emit(t, TokenEvent(Head(parts)))]
    /\ UNCHANGED <<patient, call, db>>

FallbackNextToken(t) ==
    /\ turn[t].pc = "fallback_token"
    /\ turn[t].rest # <<>>
    /\ turn' = [turn EXCEPT ![t].rest = Tail(@), ![t].reply = @ \o Head(turn[t].rest),
                            ![t].events = Emit(t, TokenEvent(Head(turn[t].rest)))]
    /\ UNCHANGED <<patient, call, db>>

\* after stage_done of summary_reply: the reply is stored and appended to
\* the history, the state committed, the final event yielded
ReplyFinal(t) ==
    /\ turn[t].pc = "reply_done"
    /\ LET sid == turn[t].sid
           state == Update(turn[t].state,
                           [assistant_reply |-> turn[t].reply, next_action |-> "done",
                            history |-> Append(turn[t].state["history"], AssistantTurn(turn[t].reply))])
       IN  /\ db' = Commit(db, sid, state)
           /\ turn' = [Unshare(t, sid) EXCEPT
                         ![t].pc = "final", ![t].committed = TRUE, ![t].state = state,
                         ![t].events = Emit(t, FinalEvent(sid, turn[t].reply, state, db[sid].documents))]
    /\ UNCHANGED <<patient, call>>

\* a plausible slip: the end-marker is sent after the final event only
EndMarkerAfterFinal(t) ==
    /\ turn[t].pc = "final"
    /\ turn' = [turn EXCEPT ![t].pc = "done_marker", ![t].events = Emit(t, DoneMarker)]
    /\ UNCHANGED <<patient, call, db>>

\* the end-marker, after the final event or after the error event
EndMarker(t) ==
    /\ turn[t].pc \in {"final", "error"}
    /\ turn' = [turn EXCEPT ![t].pc = "done_marker", ![t].events = Emit(t, DoneMarker)]
    /\ UNCHANGED <<patient, call, db>>

\* the generator returns
Finish(t) ==
    /\ turn[t].pc = "done_marker"
    /\ turn' = [turn EXCEPT ![t].pc = "finished"]
    /\ UNCHANGED <<patient, call, db>>

\* the caller goes away: the generator is closed at the yield it is
\* suspended at, and runs no further
Cancel(t) ==
    /\ Suspended(t)
    /\ turn' = [turn EXCEPT ![t].pc = "cancelled", ![t].task = NoTask]
    /\ UNCHANGED <<patient, call, db>>

Next ==
    \/ UploadDocuments
    \/ \E t \in Slots : Reject(t)
    \/ \E t \in Slots : Request(t)
    \/ \E t \in Slots : Begin(t)
    \/ \E t \in Slots : StageStart(t)
    \/ \E t \in Slots : TaskCreate(t)
    \/ \E t \in Slots : StageRun(t)
    \/ \E t \in Slots : Heartbeat(t)
    \/ \E t \in Slots : StageDone(t)
    \/ \E t \in Slots : StageRaise(t)
    \/ \E t \in Slots : AskFirstToken(t)
    \/ \E t \in Slots : AskNextToken(t)
    \/ \E t \in Slots : AskFinal(t)
    \/ \E t \in Slots : ReplyStart(t)
    \/ \E t \in Slots : StreamToken(t)
    \/ \E t \in Slots : StreamRaise(t)
    \/ \E t \in Slots : ReplyDone(t)
    \/ \E t \in Slots : FallbackFirstToken(t)
    \/ \E t \in Slots : FallbackNextToken(t)
    \/ \E t \in Slots : ReplyFinal(t)
    \/ \E t \in Slots : EndMarker(t)
    \/ \E t \in Slots : Finish(t)
    \/ \E t \in Slots : Cancel(t)

Spec == Init /\ [][Next]_vars

\* the steps the event loop takes for a generator whose caller keeps
\* reading: every step but the heartbeat and the fragments of the stream,
\* which may or may not come, and but the caller's own steps. StageRun is
\* among them: the model call of a stage returns or raises. ReplyDone is
\* among them: the stream of the reply ends.
Progress(t) ==
    \/ Begin(t) \/ StageStart(t) \/ TaskCreate(t) \/ StageRun(t) \/ StageDone(t)
    \/ StageRaise(t) \/ AskFirstToken(t) \/ AskNextToken(t) \/ AskFinal(t)
    \/ ReplyStart(t) \/ ReplyDone(t) \/ FallbackNextToken(t)
    \/ ReplyFinal(t) \/ EndMarker(t) \/ Finish(t)

\* FallbackFirstToken(t) is enabled: the reply is blank where the stream
\* may end
FallbackDue(t) ==
    /\ turn[t].pc \in {"reply_start", "streaming", "stream_failed"}
    /\ Strip(turn[t].reply) = <<>>

\* The event loop goes on with the generator, the model calls end and the
\* stream ends. The last conjunct is weak fairness of FallbackFirstToken,
\* written with the condition that enables it: the step always changes
\* pc, so WF_vars(FallbackFirstToken(t)) is []<>~FallbackDue(t).
SpecLive ==
    /\ Init /\ [][Next]_vars
    /\ WF_vars(\E t \in Slots : Progress(t))
    /\ []<>(~\E t \in Slots : FallbackDue(t))

-----------------------------------------------------------------------------
(* SpecSessions: two requests that arrive together, each for one of two   *)
(* sessions.  The blocking stages end before their first heartbeat and   *)
(* the reply stream yields nothing, so that the turns differ only in the  *)
(* model's answers to the blocking stages, in where the caller goes away  *)
(* and in the order of their steps.                                       *)

ConcurrentSessionIds == {"a", "b"}

\* the user_input of the request of slot t
ConcurrentInputs(t) == {<<"u", Digits[t + 1]>>}

InitSessions ==
    /\ patient = EmptyDict
    /\ call = Idle
    /\ db = NoSessions
    /\ turn = [t \in {1, 2} |-> FreeTurn]

\* consult_stream accepts the request of slot t
Arrive(t) ==
    /\ turn[t].pc = "free"
    /\ \E sid \in ConcurrentSessionIds, input \in ConcurrentInputs(t) :
        /\ db' = get_bucket(db, sid)
        /\ turn' = [turn EXCEPT ![t] =
                        [FreeTurn EXCEPT !.pc = "accepted", !.sid = sid, !.user_input = input,
                                         !.before = get_bucket(db, sid)[sid].state,
                                         !.served = 1]]
    /\ UNCHANGED <<patient, call>>

NextSessions ==
    \/ \E t \in Slots : Arrive(t)
    \/ \E t \in Slots : Begin(t)
    \/ \E t \in Slots : StageStart(t)
    \/ \E t \in Slots : TaskCreate(t)
    \/ \E t \in Slots : StageRun(t)
    \/ \E t \in Slots : StageDone(t)
    \/ \E t \in Slots : StageRaise(t)
    \/ \E t \in Slots : AskFirstToken(t)
    \/ \E t \in Slots : AskNextToken(t)
    \/ \E t \in Slots : AskFinal(t)
    \/ \E t \in Slots : ReplyStart(t)
    \/ \E t \in Slots : FallbackFirstToken(t)
    \/ \E t \in Slots : FallbackNextToken(t)
    \/ \E t \in Slots : ReplyDone(t)
    \/ \E t \in Slots : ReplyFinal(t)
    \/ \E t \in Slots : EndMarker(t)
    \/ \E t \in Slots : Finish(t)
    \/ \E t \in Slots : Cancel(t)

SpecSessions == InitSessions /\ [][NextSessions]_vars

-----------------------------------------------------------------------------
(* Claims about the stages, checked under SpecAgents *)

IntakeCalled == call.stage = "intake"

\* the text of a stored text value is non-empty after trimming
NonBlank(value) == value.k = "str" /\ Strip(value.v) # <<>>

\* C1: whenever Intake returns is_complete = true, its next_action is
\* 'continue' and chief_complaint, duration and severity of the returned
\* patient_info are non-empty after trimming, whatever the model answered
\* for is_complete.
C1_CompleteImpliesRequired ==
    (IntakeCalled /\ call.update.intake_result.is_complete)
        => /\ call.update.next_action = "continue"
           /\ \A i \in 1..Len(REQUIRED_FIELDS) :
                NonBlank(call.update.patient_info[REQUIRED_FIELDS[i]])

\* Intake returned is_complete = true although the model answered false
C1_Witness ==
    /\ IntakeCalled
    /\ call.update.intake_result.is_complete
    /\ Get(call.raw, "is_complete") = Bool(FALSE)

\* the model affirmed completeness of a record with a required field empty
C1_ModelOverruled ==
    /\ IntakeCalled
    /\ Get(call.raw, "is_complete") = Bool(TRUE)
    /\ ~call.update.intake_result.is_complete

\* C2: the department of the route Router returns is one of the four
\* canonical departments, for every answer of the model.
C2_DepartmentClosure ==
    call.stage = "router"
        => call.update.route.department \in {Str(d) : d \in VALID_DEPARTMENTS}

\* the model named a department outside the four and the keywords decided
C2_Witness ==
    /\ call.stage = "router"
    /\ Get(call.raw, "department") = Str(<<"gu", "ke1">>)
    /\ call.update.route.department = Str(DEPT_CARDIOLOGY)

NonEmptyList(value) == value.k = "list" /\ value.v # <<>>

\* C3: risk_alerts of the Specialist's result, and prescription_advice,
\* home_care, follow_up and emergency_signs of the Summary's result, are
\* non-empty lists for every answer of the model.
C3_SafetyListsNonEmpty ==
    /\ call.stage = "specialist"
         => NonEmptyList(call.update.specialist_result.risk_alerts)
    /\ call.stage = "summary_structured"
         => /\ NonEmptyList(call.update.final_result.prescription_advice)
            /\ NonEmptyList(call.update.final_result.home_care)
            /\ NonEmptyList(call.update.final_result.follow_up)
            /\ NonEmptyList(call.update.final_result.emergency_signs)

\* the Summary normalised an empty answer
C3_Witness ==
    /\ call.stage = "summary_structured"
    /\ call.raw = EmptyDict
    /\ call.update.final_result.home_care = TextList(DEFAULT_HOME_CARE)

\* the Specialist normalised an empty answer
C3_WitnessSpecialist ==
    /\ call.stage = "specialist"
    /\ call.raw = EmptyDict
    /\ call.update.specialist_result.risk_alerts = TextList(<<SPECIALIST_DEFAULT_ALERT>>)

\* a red-flag keyword occurs in chief_complaint, in additional_notes or in
\* one of the symptoms of the record
MentionsRedFlag(patient_info) ==
    \E flag \in RED_FLAGS :
        \/ Contains(PyStr(GetOr(patient_info, "chief_complaint", Str(<<>>))), flag)
        \/ Contains(PyStr(GetOr(patient_info, "additional_notes", Str(<<>>))), flag)
        \/ \E i \in 1..Len(GetOr(patient_info, "symptoms", List(<<>>)).v) :
              Contains(PyStr(patient_info["symptoms"].v[i]), flag)

Occurrences(value, text) == Cardinality({i \in 1..Len(value.v) : value.v[i] = Str(text)})

\* C4: when the record mentions a red flag, risk_alerts of the Specialist
\* and emergency_signs of the Summary hold their urgent-care line exactly
\* once, also when the model's answer lists that line already.
C4_UrgentLineOnce ==
    /\ (call.stage = "specialist" /\ MentionsRedFlag(call.state.patient_info))
         => Occurrences(call.update.specialist_result.risk_alerts, SPECIALIST_URGENT_TIP) = 1
    /\ (call.stage = "summary_structured" /\ MentionsRedFlag(call.state.patient_info))
         => Occurrences(call.update.final_result.emergency_signs, SUMMARY_URGENT_TIP) = 1

\* a record with the keyword in a symptom only, and a model that listed the
\* urgent line itself (twice)
C4_Witness ==
    /\ call.stage = "specialist"
    /\ MentionsRedFlag(call.state.patient_info)
    /\ ~Contains(PyStr(call.state.patient_info["chief_complaint"]), ChestPain)
    /\ Get(call.raw, "risk_alerts").k = "list"
    /\ InSeq(Str(SPECIALIST_URGENT_TIP), Get(call.raw, "risk_alerts").v)

\* the same for the Summary
C4_WitnessSummary ==
    /\ call.stage = "summary_structured"
    /\ MentionsRedFlag(call.state.patient_info)
    /\ Get(call.raw, "emergency_signs").k = "list"
    /\ InSeq(Str(SUMMARY_URGENT_TIP), Get(call.raw, "emergency_signs").v)

-----------------------------------------------------------------------------
(* Claims about the turns, checked under Spec *)

\* the generator of the turn returned: the turn was accepted, and not
\* abandoned by the caller
Returned(t) == turn[t].pc = "finished"

Positions(t) == 1..Len(turn[t].events)

Count(t, type) == Cardinality({i \in Positions(t) : turn[t].events[i].type = type})

StageEvents(t, type, stage) ==
    {i \in Positions(t) : turn[t].events[i].type = type /\ turn[t].events[i].stage = stage}

\* the intake stage ended with this next_action
IntakeYielded(t, next_action) ==
    \E i \in StageEvents(t, "stage_done", "intake") : turn[t].events[i].next_action = next_action

\* the stages of the stage_start events, in the order of the events
StagesStarted(t) ==
    LET started == SelectSeq(turn[t].events, LAMBDA e : e.type = "stage_start")
    IN  [i \in 1..Len(started) |-> started[i].stage]

StageOrder == <<"intake", "router", "specialist", "summary_structured", "summary_reply">>

\* C5: when Intake yields ask_user_more, no later stage is started, and the
\* turn returns with a final event whose next_action is ask_user_more.
C5_AskHalts ==
    \A t \in Slots :
        IntakeYielded(t, "ask_user_more")
            => /\ StagesStarted(t) = <<"intake">>
               /\ Count(t, "error") = 0
               /\ Returned(t)
                    => /\ Count(t, "final") = 1
                       /\ turn[t].events[Len(turn[t].events) - 1].type = "final"
                       /\ turn[t].events[Len(turn[t].events) - 1].next_action = "ask_user_more"

\* a turn that asked for more and returned
C5_Witness == \E t \in Slots : IntakeYielded(t, "ask_user_more") /\ Returned(t)

\* C6: when Intake yields continue, the five stages are started in their
\* order, each exactly once, and each after the one before it is done.
C6_AllStagesInOrder ==
    \A t \in Slots :
        (Returned(t) /\ IntakeYielded(t, "continue"))
            => /\ StagesStarted(t) = StageOrder
               /\ \A n \in 1..Len(StageOrder) :
                    Cardinality(StageEvents(t, "stage_done", StageOrder[n])) = 1
               /\ \A n \in 2..Len(StageOrder) :
                    \A i \in StageEvents(t, "stage_done", StageOrder[n - 1]) :
                        \A j \in StageEvents(t, "stage_start", StageOrder[n]) : i < j

\* C7: in a turn that returned, every stage that was started has one
\* stage_start, then only its own stage_progress events and no other
\* stage's stage_start, then one stage_done.
C7_StageBracketed ==
    \A t \in Slots :
        Returned(t) =>
            \A i \in Positions(t) :
                turn[t].events[i].type = "stage_start" =>
                    LET stage == turn[t].events[i].stage
                        done == StageEvents(t, "stage_done", stage)
                    IN  /\ Cardinality(StageEvents(t, "stage_start", stage)) = 1
                        /\ Cardinality(done) = 1
                        /\ \A j \in done :
                            /\ i < j
                            /\ \A k \in (i + 1)..(j - 1) :
                                /\ turn[t].events[k].type # "stage_start"
                                /\ turn[t].events[k].type = "stage_progress"
                                     => turn[t].events[k].stage = stage
                        /\ \A k \in StageEvents(t, "stage_progress", stage) :
                            i < k /\ \A j \in done : k < j

\* C8: the events of a turn that returned end with the end-marker, which
\* occurs once, and right before it comes the one final or the one error
\* event of the turn; no turn has both, or anything after the end-marker.
C8_OneTerminator ==
    \A t \in Slots :
        /\ Count(t, "final") + Count(t, "error") <= 1
        /\ \A i \in Positions(t) :
            turn[t].events[i].type = "[DONE]"
                => /\ i = Len(turn[t].events)
                   /\ i > 1
                   /\ turn[t].events[i - 1].type \in {"final", "error"}
        /\ Returned(t)
            => /\ Count(t, "[DONE]") = 1
               /\ Count(t, "final") + Count(t, "error") = 1

\* a turn that returned after an error event
C8_Witness == \E t \in Slots : Returned(t) /\ Count(t, "error") = 1

\* a turn that returned after a final event that followed streamed tokens
C8_WitnessFinal ==
    \E t \in Slots : Returned(t) /\ Count(t, "final") = 1 /\ turn[t].fragments > 0

\* C9: the persisted state of the session is the one from before the turn
\* as long as the turn has not committed, so also when it ended with an
\* error event or was abandoned.
C9_PersistedOnlyAtCommit ==
    \A t \in Slots :
        (turn[t].pc \notin {"free", "rejected"} /\ ~turn[t].committed)
            => db[turn[t].sid].state = turn[t].before

\* C10: a blocking stage whose model call failed ends with an update all
\* the same, and the turn has no error event.
C10_FailedCallAbsorbed ==
    \A t \in Slots : turn[t].task # Raised /\ ~turn[t].raised /\ Count(t, "error") = 0

\* the reply stream of the turn raised
StreamBroke(t) == \E i \in Positions(t) : turn[t].events[i] = StreamBrokenEvent

\* the turn is past its commit at the end of the streamed reply
ReplyCommitted(t) == turn[t].committed /\ turn[t].stage = "summary_reply"

\* C11: when the reply stream raised, after any number of fragments, or
\* yielded nothing, the reply committed for the turn is the text the
\* renderer makes of final_result.
C11_FallbackReplyCommitted ==
    \A t \in Slots :
        (ReplyCommitted(t) /\ (StreamBroke(t) \/ turn[t].fragments = 0))
            => db[turn[t].sid].state["assistant_reply"] = fallback_reply(turn[t].state)

\* C12: once the structured summary is done, the turn has no error event,
\* and when it returns its last event but one is a final event with a
\* non-empty assistant_reply and next_action done.
C12_StreamFailureNotFatal ==
    \A t \in Slots :
        StageEvents(t, "stage_done", "summary_structured") # {}
            => /\ Count(t, "error") = 0
               /\ Returned(t)
                    => LET last == turn[t].events[Len(turn[t].events) - 1]
                       IN  /\ last.type = "final"
                           /\ last.assistant_reply # <<>>
                           /\ last.next_action = "done"

\* a turn whose stream raised before any fragment, and that returned
C12_Witness == \E t \in Slots : Returned(t) /\ StreamBroke(t) /\ turn[t].fragments = 0

\* C13: a scalar field of the record that was non-empty before an Intake
\* pass is non-empty after it, whatever the model answered.
C13_ScalarNeverCleared ==
    IntakeCalled =>
        \A i \in 1..Len(TEXT_FIELDS) :
            (/\ TEXT_FIELDS[i] \in DOMAIN call.state.patient_info
             /\ NonBlank(call.state.patient_info[TEXT_FIELDS[i]]))
                => NonBlank(call.update.patient_info[TEXT_FIELDS[i]])

\* C14: after any sequence of Intake passes the age of the record is None
\* or a non-negative integer.
C14_AgeNonNegativeInteger ==
    IntakeCalled =>
        \/ call.update.patient_info["age"] = Null
        \/ /\ call.update.patient_info["age"].k = "num"
           /\ call.update.patient_info["age"].v >= 0

-----------------------------------------------------------------------------
(* Claims about concurrent turns, checked under SpecSessions *)

\* the turn has begun to read and write the state of its session and has
\* neither committed nor failed
InFlight(t) ==
    turn[t].pc \notin {"free", "accepted", "rejected", "final", "error", "done_marker",
                       "finished", "cancelled"}

\* every entry of the history the turn committed is in the persisted one
CommitKept(t) ==
    \A i \in 1..Len(turn[t].state["history"]) :
        InSeq(turn[t].state["history"][i], db[turn[t].sid].state["history"])

\* C15: no two turns of one session are in flight together, and what a
\* turn committed is not lost to the commit of another turn.
C15_OneRunPerSession ==
    \A t, u \in Slots :
        (t # u /\ turn[t].sid = turn[u].sid)
            => /\ ~(InFlight(t) /\ InFlight(u))
               /\ (turn[t].committed /\ turn[u].committed) => CommitKept(t)

\* C16: a step of a turn changes neither the persisted state of another
\* session nor the turn of another session.
C16_SessionsIndependent ==
    [][\A t \in Slots :
        turn'[t] # turn[t]
            => /\ \A s \in DOMAIN db \ {turn'[t].sid} : db'[s] = db[s]
               /\ \A u \in Slots \ {t} : turn[u].sid # turn'[t].sid => turn'[u] = turn[u]]_vars

\* a turn of one session has committed while a turn of the other session
\* is in flight
C16_Witness ==
    \E t, u \in Slots :
        /\ turn[t].sid = "a" /\ turn[t].committed
        /\ turn[u].sid = "b" /\ InFlight(u) /\ turn[u].stage = "router"

-----------------------------------------------------------------------------
(* Further claims about the turns, checked under Spec *)

\* C17: every token event of a turn lies after the stage_start and before
\* the stage_done of summary_reply, and a turn that halted after Intake
\* has no token event.
C17_TokensOnlyInReplyPhase ==
    \A t \in Slots :
        /\ \A i \in Positions(t) :
            turn[t].events[i].type = "token"
                => /\ \E j \in StageEvents(t, "stage_start", "summary_reply") : j < i
                   /\ \A j \in StageEvents(t, "stage_done", "summary_reply") : i < j
        /\ IntakeYielded(t, "ask_user_more") => Count(t, "token") = 0

-----------------------------------------------------------------------------
(* Further claims about the stages, checked under SpecAgents *)

\* the document context of the call
CallContext == build_document_context(call.state.documents_text)

\* how often the marker occurs in the text
Marks(text) ==
    Cardinality({i \in 1..Len(text) :
                    /\ i + Len(DOC_MARKER) - 1 <= Len(text)
                    /\ SubSeq(text, i, i + Len(DOC_MARKER) - 1) = DOC_MARKER})

\* the text of the model's answer the stage puts its marker on
MarkedAnswer(key) == safe_text(Get(call.raw, key), <<>>)

\* C18: the marker insertion of Router, Specialist and Summary leaves the
\* text it returned unchanged when it is run on it again, and the text it
\* returns for an answer with at most one marker has at most one.
C18_MarkerIdempotent ==
    /\ call.stage = "router"
        => /\ router_mark(call.update.route.reason.v, CallContext) = call.update.route.reason.v
           /\ Marks(MarkedAnswer("reason")) <= 1 => Marks(call.update.route.reason.v) <= 1
    /\ call.stage = "specialist"
        => /\ mark_consulted(call.update.specialist_result.preliminary_assessment.v, CallContext)
                = call.update.specialist_result.preliminary_assessment.v
           /\ Marks(MarkedAnswer("preliminary_assessment")) <= 1
                => Marks(call.update.specialist_result.preliminary_assessment.v) <= 1
    /\ call.stage = "summary_structured"
        => /\ mark_consulted(call.update.final_result.diagnosis_summary.v, CallContext)
                = call.update.final_result.diagnosis_summary.v
           /\ Marks(MarkedAnswer("diagnosis_summary")) <= 1
                => Marks(call.update.final_result.diagnosis_summary.v) <= 1

\* a Router call with documents whose reason came marked from the model
C18_Witness ==
    /\ call.stage = "router"
    /\ CallContext # NO_DOCUMENTS
    /\ Marks(MarkedAnswer("reason")) = 1
    /\ Marks(call.update.route.reason.v) = 1

\* a Summary call with documents that put the marker on the model's text
C18_WitnessSummary ==
    /\ call.stage = "summary_structured"
    /\ CallContext # NO_DOCUMENTS
    /\ Marks(MarkedAnswer("diagnosis_summary")) = 0
    /\ Marks(call.update.final_result.diagnosis_summary.v) = 1

\* the documents of the call hold a non-blank one
HasDocument ==
    \E i \in 1..Len(call.state.documents_text.v) : Strip(call.state.documents_text.v[i].v) # <<>>

\* C19: when the turn has a non-blank document, the reason of the route
\* Router returns holds the marker, whatever reason the model gave.
C19_ReasonMarked ==
    (call.stage = "router" /\ HasDocument) => Marks(call.update.route.reason.v) >= 1

\* C20: when the model's department is none of the four and the keyword
\* fallback decides, the reason of the route holds the fallback note.
C20_FallbackNoted ==
    (call.stage = "router" /\ MarkedAnswer("department") \notin VALID_DEPARTMENTS)
        => Contains(call.update.route.reason.v, ROUTER_FALLBACK_REASON)

-----------------------------------------------------------------------------
(* Claims about the Router, checked under SpecAgents *)

RouterCalled == call.stage = "router"

\* the department the model named, trimmed
NamedDepartment == safe_text(Get(call.raw, "department"), <<>>)

\* one of the keywords occurs in chief_complaint, in additional_notes or in
\* one of the symptoms of the record
KeywordOccurs(patient_info, keywords) ==
    \E k \in keywords :
        \/ Contains(PyStr(GetOr(patient_info, "chief_complaint", Str(<<>>))), k)
        \/ Contains(PyStr(GetOr(patient_info, "additional_notes", Str(<<>>))), k)
        \/ \E i \in 1..Len(GetOr(patient_info, "symptoms", List(<<>>)).v) :
              Contains(PyStr(patient_info["symptoms"].v[i]), k)

\* the department the fixed priority gives a record
PriorityDepartment(patient_info) ==
    IF KeywordOccurs(patient_info, RESPIRATORY_KEYWORDS) THEN DEPT_RESPIRATORY
    ELSE IF KeywordOccurs(patient_info, CARDIOLOGY_KEYWORDS) THEN DEPT_CARDIOLOGY
    ELSE IF KeywordOccurs(patient_info, GASTRO_KEYWORDS) THEN DEPT_GASTRO
    ELSE DEPT_GENERAL

\* C21: when the model names no canonical department, the Router's
\* department is the one of the first keyword group, in the order
\* respiratory, cardiology, gastroenterology, that occurs in the record's
\* chief_complaint, additional_notes or symptoms, and the general one when
\* none occurs; a record with chest pain and no respiratory keyword goes to
\* cardiology.
C21_FallbackPriority ==
    (RouterCalled /\ NamedDepartment \notin VALID_DEPARTMENTS)
        => /\ call.update.route.department = Str(PriorityDepartment(call.state.patient_info))
           /\ (/\ KeywordOccurs(call.state.patient_info, {ChestPain})
               /\ ~KeywordOccurs(call.state.patient_info, RESPIRATORY_KEYWORDS))
                 => call.update.route.department = Str(DEPT_CARDIOLOGY)

\* the keywords decided for a record with chest pain and a gastroenterology
\* keyword, and no respiratory one
C21_Witness ==
    /\ RouterCalled
    /\ NamedDepartment \notin VALID_DEPARTMENTS
    /\ KeywordOccurs(call.state.patient_info, {ChestPain})
    /\ KeywordOccurs(call.state.patient_info, GASTRO_KEYWORDS)
    /\ ~KeywordOccurs(call.state.patient_info, RESPIRATORY_KEYWORDS)
    /\ call.update.route.department = Str(DEPT_CARDIOLOGY)

\* the keywords decided for a record with a respiratory keyword and a
\* gastroenterology one
C21_WitnessRespiratory ==
    /\ RouterCalled
    /\ NamedDepartment \notin VALID_DEPARTMENTS
    /\ KeywordOccurs(call.state.patient_info, RESPIRATORY_KEYWORDS)
    /\ KeywordOccurs(call.state.patient_info, GASTRO_KEYWORDS)
    /\ call.update.route.department = Str(DEPT_RESPIRATORY)

\* C22: when the model names one of the four canonical departments, the
\* Router returns that department, whatever the keywords of the record
\* say, and its reason is not the fallback note; and the Router's
\* next_action is 'continue' for every answer of the model.
C22_ValidDepartmentKept ==
    RouterCalled
        => /\ call.update.next_action = "continue"
           /\ NamedDepartment \in VALID_DEPARTMENTS
                => /\ call.update.route.department = Str(NamedDepartment)
                   /\ ~Contains(call.update.route.reason.v, ROUTER_FALLBACK_REASON)

\* the model named a department that the keywords of the record would not
\* give, and gave no reason
C22_Witness ==
    /\ RouterCalled
    /\ NamedDepartment = DEPT_RESPIRATORY
    /\ PriorityDepartment(call.state.patient_info) = DEPT_CARDIOLOGY
    /\ "reason" \notin DOMAIN call.raw
    /\ call.update.route.department = Str(DEPT_RESPIRATORY)

-----------------------------------------------------------------------------
(* Further claims about Intake, checked under SpecAgents *)

\* the required fields that are empty in the record Intake returned
StillEmpty == {f \in KNOWN_FIELDS : InSeq(f, REQUIRED_FIELDS) /\ ~NonBlank(call.update.patient_info[f])}

\* C23: whenever chief_complaint, duration or severity is empty in the
\* record Intake returns, Intake returns is_complete = false and
\* next_action = 'ask_user_more', and missing_fields holds every required
\* field that is empty, for every answer of the model, the empty one too.
C23_EmptyRequiredReported ==
    (IntakeCalled /\ StillEmpty # {})
        => /\ ~call.update.intake_result.is_complete
           /\ call.update.next_action = "ask_user_more"
           /\ \A f \in StillEmpty : InSeq(Word(f), call.update.intake_result.missing_fields)

\* the model answered nothing about a record that holds nothing
C23_Witness ==
    /\ IntakeCalled
    /\ call.raw = EmptyDict
    /\ StillEmpty = {"chief_complaint", "duration", "severity"}
    /\ call.update.intake_result.missing_fields
         = <<Word("chief_complaint"), Word("duration"), Word("severity")>>

\* the model affirmed completeness and listed no field, of a record with
\* one required field empty
C23_WitnessAffirmed ==
    /\ IntakeCalled
    /\ Get(call.raw, "is_complete") = Bool(TRUE)
    /\ Get(call.raw, "missing_fields") = List(<<>>)
    /\ Cardinality(StillEmpty) = 1

NoDuplicates(s) == \A i, j \in 1..Len(s) : s[i] = s[j] => i = j

\* C28: missing_fields of the Intake's result has no duplicates and holds
\* only names among age, sex, chief_complaint, duration, severity,
\* symptoms, allergies, chronic_diseases and current_meds.
C28_MissingFieldsOfTheNine ==
    IntakeCalled
        => /\ NoDuplicates(call.update.intake_result.missing_fields)
           /\ \A i \in 1..Len(call.update.intake_result.missing_fields) :
                call.update.intake_result.missing_fields[i]
                    \in {Word(f) : f \in KNOWN_FIELDS \ {"additional_notes"}}

\* the lines "n. question" of the questions from the n-th on, joined by
\* newlines
RECURSIVE NumberedFrom(_, _)
NumberedFrom(questions, n) ==
    IF questions = <<>> THEN <<>>
    ELSE NatText(n) \o <<".", " ">> \o Head(questions)
         \o (IF Len(questions) > 1 THEN <<"\n">> \o NumberedFrom(Tail(questions), n + 1) ELSE <<>>)

\* C29: whenever Intake returns is_complete = false, missing_questions of
\* its result has between one and eight entries, and its reply is the
\* header followed by these questions numbered from 1 in their order.
C29_QuestionsAsked ==
    (IntakeCalled /\ ~call.update.intake_result.is_complete)
        => /\ Len(call.update.intake_result.missing_questions) \in 1..8
           /\ call.update.assistant_reply
                = INTAKE_ASK_HEADER \o NumberedFrom(call.update.intake_result.missing_questions, 1)

\* the model gave nine questions and eight are asked
C29_Witness ==
    /\ IntakeCalled
    /\ Get(call.raw, "missing_questions") = List(NineQuestions)
    /\ Len(call.update.intake_result.missing_questions) = 8

\* the model gave no question and the table's are asked
C29_WitnessDerived ==
    /\ IntakeCalled
    /\ ~call.update.intake_result.is_complete
    /\ "missing_questions" \notin DOMAIN call.raw
    /\ call.update.intake_result.missing_questions
         = default_questions(call.update.intake_result.missing_fields)

\* the model's missing_questions is a non-empty list of bare field names
OnlyBareFieldNames(value) ==
    /\ value.k = "list"
    /\ value.v # <<>>
    /\ \A i \in 1..Len(value.v) :
          value.v[i].k = "str" /\ Strip(value.v[i].v) \in {Word(f) : f \in KNOWN_FIELDS}

\* C30: when Intake is incomplete and the model's missing_questions are
\* bare field names only, the questions asked are the table's questions of
\* the missing fields, as when the model gave no question, and none of
\* them is a bare field name.
C30_BareNamesTranslated ==
    (/\ IntakeCalled
     /\ ~call.update.intake_result.is_complete
     /\ OnlyBareFieldNames(Get(call.raw, "missing_questions")))
        => /\ call.update.intake_result.missing_questions
                = default_questions(call.update.intake_result.missing_fields)
           /\ \A i \in 1..Len(call.update.intake_result.missing_questions) :
                call.update.intake_result.missing_questions[i]
                    \notin {Word(f) : f \in KNOWN_FIELDS}

-----------------------------------------------------------------------------
(* Further claims about the Router, checked under SpecAgents *)

\* the number float() makes of the model's confidence: of a number, of a
\* numeric text, of a boolean; Null when there is none
GivenConfidence ==
    LET c == Get(call.raw, "confidence")
    IN  IF c.k = "num" THEN c
        ELSE IF c.k = "str" /\ IsNumericText(Strip(c.v)) THEN Num(ParseInt(Strip(c.v)))
        ELSE IF c.k = "bool" THEN Num(IF c.v THEN 1 ELSE 0)
        ELSE Null

\* C27: when the model gives a numeric confidence, the route's confidence
\* is that number, 0 if it is below 0 and 1 if it is above 1; when the
\* model gives none, or one that is no number, the route has no confidence
\* key.
C27_ConfidenceClamped ==
    RouterCalled
        => IF GivenConfidence = Null
           THEN "confidence" \notin DOMAIN call.update.route
           ELSE /\ "confidence" \in DOMAIN call.update.route
                /\ call.update.route.confidence.k = "num"
                /\ call.update.route.confidence.v >= 0
                /\ call.update.route.confidence.v <= 1
                /\ GivenConfidence.v < 0 => call.update.route.confidence.v = 0
                /\ GivenConfidence.v > 1 => call.update.route.confidence.v = 1
                /\ GivenConfidence.v \in {0, 1}
                     => call.update.route.confidence.v = GivenConfidence.v

\* the model gave the confidence 2 and the route holds 1
C27_Witness ==
    /\ RouterCalled
    /\ Get(call.raw, "confidence") = Num(2)
    /\ call.update.route.confidence = Num(1)

\* the model gave a confidence that is no number and the route has none
C27_WitnessOmitted ==
    /\ RouterCalled
    /\ Get(call.raw, "confidence") = Str(<<"h", "i">>)
    /\ "confidence" \notin DOMAIN call.update.route

-----------------------------------------------------------------------------
(* Claims about the history of a turn, checked under SpecSessions *)

\* the history the turn committed is the persisted one of before the turn,
\* then the user turn, then `replies` assistant turns, the last of which
\* is the reply of the final event
GrownBy(t, replies) ==
    /\ Len(turn[t].state["history"]) = Len(turn[t].before["history"]) + 1 + replies
    /\ SubSeq(turn[t].state["history"], 1, Len(turn[t].before["history"]))
         = turn[t].before["history"]
    /\ turn[t].state["history"][Len(turn[t].before["history"]) + 1]
         = UserTurn(turn[t].user_input)
    /\ \A i \in (Len(turn[t].before["history"]) + 2)..Len(turn[t].state["history"]) :
          turn[t].state["history"][i].role = "assistant"
    /\ turn[t].state["history"][Len(turn[t].state["history"])] = AssistantTurn(turn[t].reply)

\* C24: the history a turn commits with its final event is the history
\* persisted before the turn, then the user turn, then one assistant turn
\* of Intake when the turn halts with ask_user_more, and one of each of
\* Intake, Router, Specialist and the streamed reply, none of the
\* structured summary, when it ends with done.
C24_HistoryOfTurn ==
    \A t \in Slots :
        turn[t].committed
            => IF turn[t].state["next_action"] = "ask_user_more"
               THEN GrownBy(t, 1)
               ELSE turn[t].state["next_action"] = "done" /\ GrownBy(t, 4)

-----------------------------------------------------------------------------
(* Claims about the state of a turn, checked under Spec *)

\* a blocking stage of the turn has started and its stage_done is not out
StageInFlight(t) == turn[t].pc \in {"stage_start", "stage_progress"}

\* C25: from the start of a blocking stage to its stage_done, the state
\* of the turn and the persisted state of its session do not change, but
\* for the step at which the controller merges the update of the finished
\* stage into the turn's state.
C25_StageCallLeavesState ==
    [][\A t \in Slots :
        StageInFlight(t)
            => /\ db'[turn[t].sid] = db[turn[t].sid]
               /\ \/ turn'[t].state = turn[t].state
                  \/ /\ turn[t].task.k = "update"
                     /\ turn'[t].pc = "stage_done"
                     /\ turn'[t].state = Update(turn[t].state, turn[t].task.v)]_vars

\* Intake has returned a record and a history that differ from those of
\* the state it was given, and the update is not merged yet
C25_Witness ==
    \E t \in Slots :
        /\ turn[t].pc = "stage_progress"
        /\ turn[t].stage = "intake"
        /\ turn[t].task.k = "update"
        /\ turn[t].task.v.patient_info # turn[t].state["patient_info"]
        /\ Len(turn[t].task.v.history) = Len(turn[t].state["history"]) + 1
        /\ turn[t].state["history"] = <<UserTurn(turn[t].user_input)>>

\* patient_info of the turn's state
RecordOf(t) == GetOr(turn[t].state, "patient_info", EmptyDict)

\* C26: within a turn, patient_info of the turn's state changes only when
\* the update of Intake is merged, and then to the record Intake returned;
\* the merges of Router, Specialist and the structured summary and the
\* reply phase leave it as it is, and the commit persists it unchanged.
C26_OnlyIntakeChangesRecord ==
    [][\A t \in Slots :
        /\ (turn[t].pc \notin {"free", "accepted"} /\ turn'[t].served = turn[t].served
                /\ GetOr(turn'[t].state, "patient_info", EmptyDict) # RecordOf(t))
              => /\ turn[t].stage = "intake"
                 /\ turn[t].task.k = "update"
                 /\ turn'[t].pc = "stage_done"
                 /\ turn'[t].state["patient_info"] = turn[t].task.v.patient_info
        /\ (turn'[t].committed /\ ~turn[t].committed)
              => db'[turn[t].sid].state["patient_info"] = RecordOf(t)]_vars

\* a turn that ran all the stages has committed the record of its Intake
C26_Witness ==
    \E t \in Slots :
        /\ turn[t].committed
        /\ turn[t].state["next_action"] = "done"
        /\ RecordOf(t)["chief_complaint"] = Str(ChestPain)
        /\ "final_result" \in DOMAIN turn[t].state
        /\ db[turn[t].sid].state["patient_info"] = RecordOf(t)

-----------------------------------------------------------------------------
(* Claims about completeness and about the checks, under SpecAgents *)

\* the model affirmed completeness: true, or one of the texts true, 1,
\* yes, y
Affirmed(value) ==
    \/ value = Bool(TRUE)
    \/ /\ value.k = "str"
       /\ Lower(Strip(value.v)) \in {<<"t", "r", "u", "e">>, <<"1">>, <<"y", "e", "s">>, <<"y">>}

AllRequiredFilled == \A i \in 1..Len(REQUIRED_FIELDS) : NonBlank(call.update.patient_info[REQUIRED_FIELDS[i]])

\* the known fields the model named as missing
NamedMissing == FilterKnown(to_str_list(Get(call.raw, "missing_fields"), MISSING_FIELDS_MAX))

\* C32: is_complete of Intake is true exactly when chief_complaint,
\* duration and severity are all non-empty and the model affirmed
\* completeness or the normalized missing_fields is empty; with the
\* required fields filled, a model that does not affirm and names a known
\* field gives ask_user_more, and a model that affirms gives continue
\* though it names fields.
C32_CompletenessFormula ==
    IntakeCalled
        => /\ call.update.intake_result.is_complete
                <=> (AllRequiredFilled
                       /\ (Affirmed(Get(call.raw, "is_complete"))
                             \/ normalize_missing_fields(Get(call.raw, "missing_fields"),
                                                         call.update.patient_info) = <<>>))
           /\ (AllRequiredFilled /\ ~Affirmed(Get(call.raw, "is_complete")) /\ NamedMissing # <<>>)
                => call.update.next_action = "ask_user_more"
           /\ (AllRequiredFilled /\ Affirmed(Get(call.raw, "is_complete")))
                => call.update.next_action = "continue"

\* the record is filled and the model affirmed with the text ' Yes' while
\* naming a missing field
C32_Witness ==
    /\ IntakeCalled
    /\ AllRequiredFilled
    /\ Get(call.raw, "is_complete") = Str(<<" ", "Y", "e", "s">>)
    /\ NamedMissing # <<>>
    /\ call.update.next_action = "continue"

\* the record is filled, the model answered the number 1 for is_complete
\* and named a missing field: Intake asks
C32_WitnessAsk ==
    /\ IntakeCalled
    /\ AllRequiredFilled
    /\ Get(call.raw, "is_complete") = Num(1)
    /\ NamedMissing # <<>>
    /\ call.update.next_action = "ask_user_more"

\* C33: in every update of Intake, is_complete is true exactly when
\* missing_fields is empty and exactly when next_action is 'continue', and
\* then missing_questions is empty; otherwise next_action is
\* 'ask_user_more'.
C33_CompleteIffNothingMissing ==
    IntakeCalled
        => /\ call.update.intake_result.is_complete
                <=> call.update.intake_result.missing_fields = <<>>
           /\ call.update.intake_result.is_complete <=> call.update.next_action = "continue"
           /\ call.update.intake_result.missing_fields = <<>>
                => call.update.intake_result.missing_questions = <<>>
           /\ call.update.next_action \in {"continue", "ask_user_more"}

\* Intake is complete although the model named missing fields and gave
\* nothing else but its affirmation
C33_Witness ==
    /\ IntakeCalled
    /\ call.update.intake_result.is_complete
    /\ NamedMissing # <<>>
    /\ call.update.intake_result.missing_fields = <<>>

\* C34: recommended_checks of the Specialist's result is the empty list
\* or the fixed list of two checks; no check of the model is in it.
C34_ChecksFixedOrEmpty ==
    call.stage = "specialist"
        => /\ call.update.specialist_result.recommended_checks
                \in {List(<<>>),
                     List(<<Str(<<"blood", "count">>), Str(<<"imaging", "if", "needed">>)>>)}
           /\ call.update.specialist_result.recommended_checks = List(<<>>)
                <=> to_str_list(Get(call.raw, "recommended_checks"), DEFAULT_MAX_ITEMS) = <<>>

\* the model recommended an x-ray and the fixed checks are returned
C34_Witness ==
    /\ call.stage = "specialist"
    /\ Get(call.raw, "recommended_checks") = List(<<Str(<<"x", "-", "r", "a", "y">>)>>)
    /\ call.update.specialist_result.recommended_checks = TextList(FIXED_CHECKS)

\* the model's only check was blank and no check is returned
C34_WitnessBlank ==
    /\ call.stage = "specialist"
    /\ Get(call.raw, "recommended_checks") = List(<<Blank>>)
    /\ call.update.specialist_result.recommended_checks = List(<<>>)

-----------------------------------------------------------------------------
(* Claims about the final event and about refused requests, under Spec *)

\* the contents of the token events, concatenated in their order
RECURSIVE TokenText(_)
TokenText(events) ==
    IF events = <<>> THEN <<>>
    ELSE (IF Head(events).type = "token" THEN Head(events).content ELSE <<>>)
         \o TokenText(Tail(events))

\* the last turn of the history persisted for the session of the turn
LastPersisted(t) ==
    db[turn[t].sid].state["history"][Len(db[turn[t].sid].state["history"])]

\* C35: the assistant_reply of a final event is the concatenation of the
\* contents of the token events of its turn, and the content of the last
\* turn, an assistant turn, of the committed history.
C35_ReplyIsTokens ==
    \A t \in Slots :
        \A i \in Positions(t) :
            turn[t].events[i].type = "final"
                => /\ turn[t].events[i].assistant_reply = TokenText(turn[t].events)
                   /\ LastPersisted(t) = AssistantTurn(turn[t].events[i].assistant_reply)

\* the fallback path: the stream yielded blank fragments only, and the
\* turn returned
C35_Witness ==
    \E t \in Slots :
        /\ Returned(t)
        /\ Count(t, "final") = 1
        /\ turn[t].fragments = MaxFragments
        /\ SubSeq(turn[t].reply, 1, MaxFragments) = [i \in 1..MaxFragments |-> " "]
        /\ Len(turn[t].reply) > MaxFragments + REPLY_CHUNK_SIZE

\* the partial-stream path: one fragment, then the stream raised
C35_WitnessPartial ==
    \E t \in Slots : Returned(t) /\ Count(t, "final") = 1 /\ StreamBroke(t) /\ turn[t].reply = <<"t">>

\* the ask_user_more path, with a reply of several tokens
C35_WitnessAsk ==
    \E t \in Slots :
        /\ Returned(t)
        /\ Count(t, "final") = 1
        /\ turn[t].stage = "intake"
        /\ Count(t, "token") > 1

\* the streamed path: the stream was exhausted
C35_WitnessStreamed ==
    \E t \in Slots :
        /\ Returned(t)
        /\ Count(t, "final") = 1
        /\ ~StreamBroke(t)
        /\ turn[t].reply = <<"t", " ">>

\* C36: the next_action of a final event is ask_user_more or done, and
\* the case_status of its snapshot is 'collecting' for the one and
\* 'closed' for the other; the persisted next_action of a session is
\* 'continue' only as long as the session holds nothing a turn committed.
C36_FinalNeverContinue ==
    /\ \A t \in Slots :
        /\ \A i \in Positions(t) :
              turn[t].events[i].type = "final"
                  => /\ turn[t].events[i].next_action \in {"ask_user_more", "done"}
                     /\ turn[t].events[i].state.next_action = turn[t].events[i].next_action
                     /\ turn[t].events[i].state.case_status
                          = IF turn[t].events[i].next_action = "ask_user_more"
                            THEN "collecting" ELSE "closed"
        /\ turn[t].committed => db[turn[t].sid].state["next_action"] # "continue"
    /\ \A s \in DOMAIN db :
          db[s].state["next_action"] = "continue"
              => [db[s].state EXCEPT !["history"] = <<>>] = new_state

\* a final event of the ask path and a persisted ask_user_more
C36_Witness ==
    \E t \in Slots :
        /\ turn[t].pc = "final"
        /\ turn[t].events[Len(turn[t].events)].state.case_status = "collecting"
        /\ db[turn[t].sid].state["next_action"] = "ask_user_more"

\* a final event of the done path
C36_WitnessDone ==
    \E t \in Slots :
        /\ turn[t].pc = "final"
        /\ turn[t].events[Len(turn[t].events)].state.case_status = "closed"

\* C40: a request whose session_id or user_input is blank after trimming
\* is refused at once: the step that refuses it leaves the sessions as
\* they are, creates none, and the refused request has no event, no stage
\* and no task, and takes no further step.
C40_RejectedBeforeWork ==
    [][\A t \in Slots :
        /\ (turn'[t].pc = "rejected" /\ turn'[t].served # turn[t].served)
              => /\ db' = db
                 /\ turn'[t].events = <<>>
                 /\ turn'[t].stage = ""
                 /\ turn'[t].task = NoTask
        /\ (turn[t].pc = "rejected" /\ turn'[t].served = turn[t].served)
              => turn'[t] = turn[t]]_vars

\* a request was refused while a session exists, still as it was created
C40_Witness ==
    \E t \in Slots :
        /\ turn[t].pc = "rejected"
        /\ DOMAIN db = {"a"}
        /\ db["a"] = NewBucket

\* a request was refused and there is no session
C40_WitnessNoSession == \E t \in Slots : turn[t].pc = "rejected" /\ db = NoSessions

-----------------------------------------------------------------------------
(* A turn of a session whose last turn ended with 'done', under SpecSessions *)

\* the request arrived when the persisted next_action of its session was
\* 'done'
AfterDone(t) == turn[t].pc # "free" /\ turn[t].before["next_action"] = "done"

KeptOfEarlierTurn == {"route", "specialist_result", "final_result"}

\* C37: a request on a session whose persisted next_action is 'done' is
\* taken like any other: its state starts from the persisted one, its
\* first stage is intake, and when it halts with ask_user_more the route,
\* specialist_result and final_result it commits are those committed
\* before, and the snapshot of its final event reports that route.
C37_DoneIsNotLocked ==
    \A t \in Slots :
        AfterDone(t)
            => /\ turn[t].pc = "meta"
                    => /\ \A k \in KeptOfEarlierTurn \cup {"patient_info", "next_action"} :
                              turn[t].state[k] = turn[t].before[k]
                       /\ turn[t].state["history"]
                            = Append(turn[t].before["history"], UserTurn(turn[t].user_input))
               /\ StagesStarted(t) # <<>> => StagesStarted(t)[1] = "intake"
               /\ (turn[t].committed /\ turn[t].stage = "intake")
                    => /\ db[turn[t].sid].state["next_action"] = "ask_user_more"
                       /\ \A k \in KeptOfEarlierTurn :
                              db[turn[t].sid].state[k] = turn[t].before[k]
                       /\ \A i \in Positions(t) :
                              turn[t].events[i].type = "final"
                                  => /\ turn[t].events[i].state.route = turn[t].before["route"]
                                     /\ turn[t].events[i].state.case_status = "collecting"

\* a turn after 'done' halted with ask_user_more and returned; the route
\* of its snapshot names a department
C37_Witness ==
    \E t \in Slots :
        /\ AfterDone(t)
        /\ Returned(t)
        /\ Count(t, "final") = 1
        /\ turn[t].stage = "intake"
        /\ turn[t].events[Len(turn[t].events) - 1].state.route # EmptyDict
        /\ db[turn[t].sid].state["next_action"] = "ask_user_more"

\* a turn after 'done' ran the whole pipeline again
C37_WitnessAgain == \E t \in Slots : AfterDone(t) /\ ReplyCommitted(t)

-----------------------------------------------------------------------------
(* Termination of a turn, under SpecLive, which serves one request at a
   time *)

BlockingStages == {"intake", "router", "specialist", "summary_structured"}

\* the step appended an event of the type to the events of the turn
Emitted(t, type) ==
    /\ Len(turn'[t].events) = Len(turn[t].events) + 1
    /\ turn'[t].events[Len(turn'[t].events)].type = type

MarkerSent(t) == \E i \in Positions(t) : turn[t].events[i] = DoneMarker

\* C39: an accepted turn whose caller does not go away comes to send
\* '[DONE]'; a stage_progress of a blocking stage is sent only while the
\* call of the stage has not completed, and its stage_done only by the
\* step that takes the update the call returned and merges it.
C39_TurnEnds ==
    /\ (\E t \in Slots : turn[t].pc = "accepted")
          ~> (\E t \in Slots : MarkerSent(t) \/ turn[t].pc = "cancelled")
    /\ [][\A t \in Slots :
            /\ (Emitted(t, "stage_progress") /\ turn'[t].stage \in BlockingStages)
                  => /\ turn'[t].task = Running
                     /\ turn[t].task = Running \/ turn[t].pc = "stage_start"
            /\ (Emitted(t, "stage_done") /\ turn'[t].stage \in BlockingStages)
                  => /\ turn[t].task.k = "update"
                     /\ turn'[t].state = Update(turn[t].state, turn[t].task.v)
                     /\ turn'[t].task = NoTask]_vars

\* a turn sent '[DONE]' after a stage whose heartbeat went on past the
\* first stage_progress, and after the reply
C39_Witness ==
    \E t \in Slots :
        /\ Returned(t)
        /\ MarkerSent(t)
        /\ ReplyCommitted(t)
        /\ Cardinality(StageEvents(t, "stage_progress", "router")) > 1

\* a turn sent '[DONE]' after a model call raised
C39_WitnessError == \E t \in Slots : Returned(t) /\ MarkerSent(t) /\ turn[t].raised

-----------------------------------------------------------------------------
(* The graph of create_workflow beside event_generator, under Spec: the
   field graph of a turn is the graph invoked with the state the turn
   started from and given the answer of the model each stage of the turn
   was given *)

\* the node of the graph that runs the agent of a blocking stage
NodeOf(stage) == IF stage = "summary_structured" THEN "summary" ELSE stage

ComparedFields == {"patient_info", "route", "specialist_result", "final_result", "next_action"}

\* C38: event_generator and the graph run the same agents in the same
\* order on the same answers: a stage of the turn runs when the graph is
\* at its node, the turn ends after Intake exactly when the graph does,
\* and the state the turn commits agrees with the state of the graph at
\* END on patient_info, route, specialist_result, final_result and
\* next_action.
C38_SameAsGraph ==
    \A t \in Slots :
        /\ turn[t].task = Running => turn[t].graph.at = NodeOf(turn[t].stage)
        /\ turn[t].committed
              => /\ turn[t].graph.at = "END"
                 /\ \A k \in ComparedFields :
                        Get(turn[t].state, k) = Get(turn[t].graph.state, k)

\* a turn ran the four stages and committed; the graph is at END with a
\* final_result
C38_Witness ==
    \E t \in Slots :
        /\ ReplyCommitted(t)
        /\ turn[t].graph.at = "END"
        /\ "final_result" \in DOMAIN turn[t].graph.state
        /\ turn[t].graph.state["next_action"] = "done"

\* a turn halted after Intake and committed; the graph is at END with no
\* route
C38_WitnessAsk ==
    \E t \in Slots :
        /\ turn[t].committed
        /\ turn[t].stage = "intake"
        /\ turn[t].graph.at = "END"
        /\ "route" \notin DOMAIN turn[t].graph.state

-----------------------------------------------------------------------------
(* src/app/llm_client.py: chat_json and its sanitizer.  A text is a        *)
(* sequence of atoms: "w" a word of prose, " " and "\n" white space, FENCE *)
(* the code fence of three backticks, "json" and "JSON" the word after a    *)
(* fence, "{" "}" "[" "]" the brackets of JSON, "k" a key with its colon   *)
(* and "1" a number.                                                      *)

FENCE == "fence"

JsonError == [k |-> "error"]

NoSpace(text) == SelectSeq(text, LAMBDA c : ~IsWhite(c))

\* the position after the JSON value that starts at tokens[i], 0 when
\* there is none
RECURSIVE ParseValue(_, _)
RECURSIVE ParseMembers(_, _)
RECURSIVE ParseElements(_, _)
ParseValue(tokens, i) ==
    IF i > Len(tokens) THEN 0
    ELSE IF tokens[i] = "1" THEN i + 1
    ELSE IF tokens[i] = "{" THEN ParseMembers(tokens, i + 1)
    ELSE IF tokens[i] = "[" THEN ParseElements(tokens, i + 1)
    ELSE 0

ParseMembers(tokens, i) ==
    IF i > Len(tokens) THEN 0
    ELSE IF tokens[i] = "}" THEN i + 1
    ELSE IF tokens[i] = "k" /\ ParseValue(tokens, i + 1) # 0
         THEN ParseMembers(tokens, ParseValue(tokens, i + 1))
    ELSE 0

ParseElements(tokens, i) ==
    IF i > Len(tokens) THEN 0
    ELSE IF tokens[i] = "]" THEN i + 1
    ELSE IF ParseValue(tokens, i) # 0 THEN ParseElements(tokens, ParseValue(tokens, i))
    ELSE 0

\* json.loads(text): the value, told by its kind and its tokens without the
\* white space between them, or JsonError where json.loads raises
json_loads(text) ==
    IF NoSpace(text) # <<>> /\ ParseValue(NoSpace(text), 1) = Len(NoSpace(text)) + 1
    THEN [k |-> CASE NoSpace(text)[1] = "{" -> "dict"
                  [] NoSpace(text)[1] = "[" -> "list"
                  [] OTHER -> "num",
          v |-> NoSpace(text)]
    ELSE JsonError

EmptyMapping == [k |-> "dict", v |-> <<"{", "}">>]

FencePositions(raw) == {i \in 1..Len(raw) : raw[i] = FENCE}

FirstOf(positions) == CHOOSE i \in positions : \A j \in positions : i <= j

\* the first match of the pattern of fenced blocks in raw, stripped:
\* what stands between the first fence, the word json and the white space
\* after it, and the next fence
first_fenced_block(raw) ==
    LET open == FirstOf(FencePositions(raw))
        close == FirstOf(FencePositions(raw) \ {open})
        tagged == open + 1 < close /\ raw[open + 1] \in {"json", "JSON"}
    IN  Strip(SubSeq(raw, IF tagged THEN open + 2 ELSE open + 1, close - 1))

\* raw[left : right + 1] for left = raw.find("{"), right = raw.rfind("}")
slice_braces(raw) ==
    LET lefts == {i \in 1..Len(raw) : raw[i] = "{"}
        rights == {i \in 1..Len(raw) : raw[i] = "}"}
        left == FirstOf(lefts)
        right == CHOOSE i \in rights : \A j \in rights : j <= i
    IN  IF lefts # {} /\ rights # {} /\ right > left THEN SubSeq(raw, left, right) ELSE raw

\* a plausible slip: the fences are not looked at
cleanup_json_text_unfenced(text) == Strip(slice_braces(Strip(text)))

\* LLMClient._cleanup_json_text
cleanup_json_text(text) ==
    IF Strip(text) = <<>> THEN <<>>
    ELSE IF Cardinality(FencePositions(Strip(text))) >= 2
         THEN Strip(slice_braces(first_fenced_block(Strip(text))))
    ELSE Strip(slice_braces(Strip(text)))

\* payload if isinstance(payload, dict) else {}
dict_or_empty(payload) == IF payload.k = "dict" THEN payload ELSE EmptyMapping

\* LLMClient.chat_json when chat_text returned text
chat_json(text) ==
    IF text = <<>> THEN EmptyMapping
    ELSE IF json_loads(text) # JsonError THEN dict_or_empty(json_loads(text))
    ELSE IF cleanup_json_text(text) = <<>> THEN EmptyMapping
    ELSE IF json_loads(cleanup_json_text(text)) # JsonError
         THEN dict_or_empty(json_loads(cleanup_json_text(text)))
    ELSE EmptyMapping

(* the contents the model may answer with *)

\* prose, with brackets in it but no fence
Proses ==
    { <<"w">>, <<"w", " ", "w">>, <<"w", "{", "w">>, <<"}", " ", "w">>, <<"w", "[", "1", "]">> }

JsonObjects ==
    { <<"{", "}">>, <<"{", "k", "1", "}">>, <<"{", " ", "k", " ", "1", "\n", "}">>,
      <<"{", "k", "{", "k", "1", "}", "}">>, <<"{", "k", "[", "{", "}", "]", "k", "1", "}">> }

JsonOthers == { <<"1">>, <<"[", "]">>, <<"[", "1", "]">>, <<"[", "{", "k", "1", "}", "]">> }

Garbage ==
    { <<"w">>, <<"{", "w", "}">>, <<"{", "k", "1">>, <<"k", "1", "}">>, <<"}", "{">>,
      <<"{", "k", "}">>, <<"[", "1">>, <<"{", "}", "{", "}">>, <<"json">> }

FenceTags == { <<>>, <<"json">>, <<"JSON">>, <<"json", "\n">>, <<"\n">>, <<"w", "\n">> }

Bodies == JsonObjects \cup JsonOthers \cup Garbage \cup {<<>>}

Fenced(before, tag, body, after) ==
    before \o <<FENCE>> \o tag \o body \o <<"\n", FENCE>> \o after

Contents ==
    {<<>>, <<" ">>}
    \cup {before \o body \o after : before \in Proses \cup {<<>>, <<" ">>}, body \in Bodies,
                                    after \in Proses \cup {<<>>, <<"\n">>}}
    \cup {Fenced(before, tag, body, after) : before \in Proses \cup {<<>>}, tag \in FenceTags,
                                             body \in Bodies, after \in Proses \cup {<<>>}}
    \cup {before \o <<FENCE>> \o body : before \in Proses, body \in Bodies}
    \cup {Fenced(<<"w">>, <<>>, first, <<"w">>) \o Fenced(<<>>, <<"json">>, second, <<>>) :
            first \in Garbage \cup JsonOthers, second \in JsonObjects}

\* _extract_text of a content that is a string: str(content).strip()
extract_text(content) == Strip(content)

JsonInit ==
    /\ patient = EmptyDict
    /\ call = Idle
    /\ db = NoSessions
    /\ turn = NoSessions

\* chat_json: chat_text returns the text of the content, and the payload is
\* made of it
ChatJsonCall ==
    /\ call = Idle
    /\ \E content \in Contents :
        call' = [stage |-> "chat_json", content |-> content, text |-> extract_text(content),
                 payload |-> chat_json(extract_text(content))]
    /\ UNCHANGED <<patient, db, turn>>

\* the payload is handed to the agent
ChatJsonReturn ==
    /\ call # Idle
    /\ call' = Idle
    /\ UNCHANGED <<patient, db, turn>>

JsonNext == ChatJsonCall \/ ChatJsonReturn

SpecJson == JsonInit /\ [][JsonNext]_vars

\* the text is prose, a fenced block that holds the object, and prose
IsFencedObject(text, object) ==
    \E before \in Proses, tag \in FenceTags, after \in Proses :
        text = Fenced(before, tag, object, after)

\* some stretch of the text is a JSON object
HoldsObject(text) ==
    \E i \in 1..Len(text), j \in 1..Len(text) : json_loads(SubSeq(text, i, j)).k = "dict"

\* C31: of a text that is prose, a fenced block holding a JSON object and
\* more prose, chat_json gives what json.loads gives of the object alone;
\* of a text that holds no JSON object, or is JSON but not an object, it
\* gives the empty mapping; it gives a mapping whatever the text.
C31_SanitizerRecovers ==
    call # Idle
        => /\ call.payload.k = "dict"
           /\ \A object \in JsonObjects :
                IsFencedObject(call.text, object) => call.payload = json_loads(object)
           /\ (~HoldsObject(call.text) \/ json_loads(call.text).k \in {"list", "num"})
                => call.payload = EmptyMapping

\* the object with a member was recovered from a fenced block between
\* prose with a brace in it
C31_Witness ==
    /\ call # Idle
    /\ call.text = Fenced(<<"w", "{", "w">>, <<"json", "\n">>, <<"{", "k", "1", "}">>, <<"w">>)
    /\ call.payload = [k |-> "dict", v |-> <<"{", "k", "1", "}">>]

\* a JSON list that holds an object gave the empty mapping
C31_WitnessList ==
    /\ call # Idle
    /\ call.text = <<"[", "{", "k", "1", "}", "]">>
    /\ call.payload = EmptyMapping

\* a text with braces that is no JSON gave the empty mapping
C31_WitnessGarbage ==
    /\ call # Idle
    /\ call.text = <<"w", "{", "w", "}">>
    /\ call.payload = EmptyMapping

=============================================================================
